---- MODULE Spec2Model ----
(***************************************************************************)
(* A model of true-iso: the isometric sprite corrector.                    *)
(*                                                                         *)
(* The program computes in f64.  The model keeps f64 values as exact       *)
(* binary fractions (sign, odd significand, exponent) and rounds every     *)
(* arithmetic result to 53 significant bits, nearest-even, as IEEE-754     *)
(* binary64 does.  Significands are little-endian limb sequences because   *)
(* the 53-bit values do not fit the model checker's integers.              *)
(***************************************************************************)
EXTENDS Integers, Sequences, FiniteSets, TLC

\* ------------------------------------------------------------------------
\* Unsigned big integers: little-endian sequences of limbs, no high zero limb
\* ------------------------------------------------------------------------
LimbBits == 15
Base == 2^LimbBits

\* The sequence f with its elements computed, once
Strict(f) == f \o <<>>

\* Limb i of a, 0 beyond its length
Limb[a \in Any, i \in Any] == IF i >= 1 /\ i <= Len(a) THEN a[i] ELSE 0

\* a without its high zero limbs
BTrim[a \in Any] ==
  SubSeq(a, 1, Cardinality({i \in 1..Len(a) : \E j \in i..Len(a) : a[j] # 0}))

BFromInt[n \in Any] ==
  IF n = 0 THEN <<>>
  ELSE IF n < Base THEN <<n>>
  ELSE IF n < Base * Base THEN <<n % Base, n \div Base>>
  ELSE <<n % Base, (n \div Base) % Base, n \div (Base * Base)>>

\* Only for values known to be below 2^31.
BToInt[a \in Any] ==
  IF a = <<>> THEN 0
  ELSE IF Len(a) = 1 THEN a[1]
  ELSE IF Len(a) = 2 THEN a[1] + Base * a[2]
  ELSE a[1] + Base * a[2] + Base * Base * a[3]

\* a < b for a and b of one length: they differ first, from the top, at a
\* limb where a is smaller
BLess[a \in Any, b \in Any] ==
  \E i \in 1..Len(a) : a[i] < b[i] /\ \A j \in (i + 1)..Len(a) : a[j] = b[j]

\* -1, 0, 1: the order of a and b
BCmp[a \in Any, b \in Any] ==
  IF Len(a) < Len(b) THEN -1
  ELSE IF Len(a) > Len(b) THEN 1
  ELSE IF a = b THEN 0
  ELSE IF BLess[a, b] THEN -1 ELSE 1

IntMax[a \in Any, b \in Any] == IF a >= b THEN a ELSE b
IntMin[a \in Any, b \in Any] == IF a <= b THEN a ELSE b

\* The carry into limb i of a + b: a lower limb pair overflows and every pair
\* between passes the carry on
BCarry[a \in Any, b \in Any, i \in Any] ==
  IF \E j \in 1..(i - 1) : /\ Limb[a, j] + Limb[b, j] >= Base
                           /\ \A l \in (j + 1)..(i - 1) : Limb[a, l] + Limb[b, l] = Base - 1
  THEN 1 ELSE 0

BAdd[a \in Any, b \in Any] ==
  BTrim[Strict([i \in 1..(IntMax[Len(a), Len(b)] + 1) |->
           (Limb[a, i] + Limb[b, i] + BCarry[a, b, i]) % Base])]

\* The borrow from limb i of a - b
BBorrow[a \in Any, b \in Any, i \in Any] ==
  IF \E j \in 1..(i - 1) : /\ Limb[a, j] < Limb[b, j]
                           /\ \A l \in (j + 1)..(i - 1) : Limb[a, l] = Limb[b, l]
  THEN 1 ELSE 0

\* a - b for a >= b
BSub[a \in Any, b \in Any] ==
  BTrim[Strict([i \in 1..Len(a) |-> (Limb[a, i] - Limb[b, i] - BBorrow[a, b, i] + Base) % Base])]

\* b * d for a limb d: the low halves of the limb products plus the high
\* halves one limb up
BTimes[b \in Any, d \in Any] ==
  BAdd[Strict([i \in 1..Len(b) |-> (b[i] * d) % Base]),
       Strict([i \in 1..(Len(b) + 1) |-> IF i = 1 THEN 0 ELSE (b[i - 1] * d) \div Base])]

\* The sum over i <= n of the low (h = 0) or high (h = 1) halves of the limb
\* products a[i] * b[k + 1 - i]
BColumn[a \in Any, b \in Any, k \in Any, h \in Any, n \in Any] ==
  IF n = 0 THEN 0
  ELSE BColumn[a, b, k, h, n - 1]
       + (IF h = 0 THEN (Limb[a, n] * Limb[b, k + 1 - n]) % Base
                   ELSE (Limb[a, n] * Limb[b, k + 1 - n]) \div Base)

\* Column k of a * b: the low halves of its limb products and the high halves
\* of the column below
BColumns[a \in Any, b \in Any] ==
  Strict([k \in 1..(Len(a) + Len(b)) |->
            BColumn[a, b, k, 0, IntMin[k, Len(a)]] + BColumn[a, b, k - 1, 1, IntMin[k - 1, Len(a)]]])

\* The columns col, each below Base * Base, as a big integer
BNormal[col \in Any] ==
  BAdd[Strict([k \in 1..Len(col) |-> col[k] % Base]),
       Strict([k \in 1..(Len(col) + 1) |-> IF k = 1 THEN 0 ELSE col[k - 1] \div Base])]

BMul[a \in Any, b \in Any] == IF a = <<>> \/ b = <<>> THEN <<>> ELSE BNormal[BColumns[a, b]]

\* a * 2^k
BShl[a \in Any, k \in Any] ==
  BTrim[Strict([i \in 1..(Len(a) + (k \div LimbBits) + 1) |->
           ((Limb[a, i - (k \div LimbBits)] * 2^(k % LimbBits)) % Base)
           + (Limb[a, i - (k \div LimbBits) - 1] \div 2^(LimbBits - (k % LimbBits)))])]

\* floor(a / 2^k)
BShr[a \in Any, k \in Any] ==
  BTrim[Strict([i \in 1..IntMax[0, Len(a) - (k \div LimbBits)] |->
           (Limb[a, i + (k \div LimbBits)] \div 2^(k % LimbBits))
           + ((Limb[a, i + (k \div LimbBits) + 1] % 2^(k % LimbBits)) * 2^(LimbBits - (k % LimbBits)))])]

\* The number of bits of n, 0 <= n < 2^31
IntBitLen[n \in Any] == Cardinality({k \in 0..30 : 2^k <= n})

BBitLen[a \in Any] == IF a = <<>> THEN 0 ELSE LimbBits * (Len(a) - 1) + IntBitLen[a[Len(a)]]

\* The number of trailing zero bits of n, 0 < n < 2^31
IntTz[n \in Any] == Cardinality({k \in 1..30 : n % 2^k = 0})

\* The number of trailing zero bits of a > 0
BTz[a \in Any] ==
  LimbBits * Cardinality({i \in 1..Len(a) : \A j \in 1..i : a[j] = 0})
  + IntTz[a[Cardinality({i \in 1..Len(a) : \A j \in 1..i : a[j] = 0}) + 1]]

BOdd[a \in Any] == a # <<>> /\ a[1] % 2 = 1

\* One digit of a long division: the largest d with d * b <= r, for r < b * Base
\* and b with its top limb at least Base / 2.  The estimate from the two top
\* limbs of r is at most 2 too large (Knuth, 4.3.1 D).
BDivEstimate[r \in Any, b \in Any] ==
  IntMin[Base - 1, (Limb[r, Len(b) + 1] * Base + Limb[r, Len(b)]) \div b[Len(b)]]

BDivCorrect[r \in Any, b \in Any, qh \in Any] ==
  IF BCmp[BTimes[b, qh], r] <= 0 THEN qh
  ELSE IF BCmp[BTimes[b, qh - 1], r] <= 0 THEN qh - 1
  ELSE qh - 2

BDivDigit[r \in Any, b \in Any] == BDivCorrect[r, b, BDivEstimate[r, b]]

\* Long division, one step: the digit d of the remainder r, put below the
\* digits q
BDivStep[b \in Any, r \in Any, q \in Any, d \in Any] == [q |-> <<d>> \o q, r |-> BSub[r, BTimes[b, d]]]

BDivBring[b \in Any, r \in Any, q \in Any] == BDivStep[b, r, q, BDivDigit[r, b]]

\* Limb low of a brought down to the quotient and remainder of the limbs above
BDivDown[b \in Any, low \in Any, above \in Any] == BDivBring[b, BTrim[<<low>> \o above.r], above.q]

\* [q, r] of the limbs of a from i up by b; fewer limbs than b has give no
\* digit
BDivFrom[a \in Any, b \in Any, i \in Any] ==
  IF i > Len(a) - Len(b) + 1 THEN [q |-> <<>>, r |-> SubSeq(a, i, Len(a))]
  ELSE BDivDown[b, a[i], BDivFrom[a, b, i + 1]]

\* The shift that brings the top limb of b to at least Base / 2
BNormShift[b \in Any] == LimbBits - IntBitLen[b[Len(b)]]

BUnshift[qr \in Any, s \in Any] == [q |-> BTrim[qr.q], r |-> BShr[qr.r, s]]

\* quotient and remainder of a by b > 0
BDivMod[a \in Any, b \in Any] ==
  BUnshift[BDivFrom[BShl[a, BNormShift[b]], BShl[b, BNormShift[b]], 1], BNormShift[b]]

\* ------------------------------------------------------------------------
\* f64: [k, s, m, e] is (-1)^s * m * 2^e, m odd (m = <<>> is zero); k tells
\* finite values from the infinities and NaN.  Zero carries no sign.
\* ------------------------------------------------------------------------
MantBits == 53

F64Zero == [k |-> "fin", s |-> 0, m |-> <<>>, e |-> 0]
F64NaN == [k |-> "nan", s |-> 0, m |-> <<>>, e |-> 0]
F64Inf[s \in Any] == [k |-> "inf", s |-> s, m |-> <<>>, e |-> 0]

\* The positive f64 m * 2^e, m odd
F64Bits[m \in Any, e \in Any] == [k |-> "fin", s |-> 0, m |-> m, e |-> e]

F64IsZero[a \in Any] == a.k = "fin" /\ a.m = <<>>
F64IsNaN[a \in Any] == a.k = "nan"

\* The exponent of the lowest bit a value can have, and the exponent no
\* finite value reaches
MinExponent == -1074
MaxExponent == 1024

\* The low bits of M * 2^e that do not fit: those beyond 53, and those below
\* 2^MinExponent
BExcess[M \in Any, e \in Any] == IntMax[0, IntMax[BBitLen[M] - MantBits, MinExponent - e]]

\* M without its low sh bits, rounded to nearest, ties to even: rounded up
\* when the first lost bit is set and either a lower bit is set or the kept
\* part is odd.
BRoundShr[M \in Any, sh \in Any] ==
  IF sh = 0 THEN M
  ELSE IF BOdd[BShr[M, sh - 1]] /\ (BTz[M] < sh - 1 \/ BOdd[BShr[M, sh]])
       THEN BAdd[BShr[M, sh], <<1>>]
  ELSE BShr[M, sh]

\* (-1)^s * q * 2^e with the significand made odd, q > 0
F64Odd[s \in Any, q \in Any, e \in Any] == [k |-> "fin", s |-> s, m |-> BShr[q, BTz[q]], e |-> e + BTz[q]]

\* (-1)^s * q * 2^e, q of at most 53 bits: zero when q is, infinite from
\* 2^MaxExponent on
F64Ranged[s \in Any, q \in Any, e \in Any] ==
  IF q = <<>> THEN F64Zero
  ELSE IF BBitLen[q] + e > MaxExponent THEN F64Inf[s]
  ELSE F64Odd[s, q, e]

F64Rounded[s \in Any, M \in Any, e \in Any, sh \in Any] == F64Ranged[s, BRoundShr[M, sh], e + sh]

\* The f64 nearest to (-1)^s * M * 2^e, ties to even.
F64Make[s \in Any, M \in Any, e \in Any] ==
  IF M = <<>> THEN F64Zero ELSE F64Rounded[s, M, e, BExcess[M, e]]

IntAbs[n \in Any] == IF n < 0 THEN -n ELSE n

\* The f64 n * 2^e, for |n| < 2^31
F64Lit[n \in Any, e \in Any] ==
  IF n = 0 THEN F64Zero
  ELSE [k |-> "fin", s |-> IF n < 0 THEN 1 ELSE 0,
        m |-> BFromInt[IntAbs[n] \div 2^IntTz[IntAbs[n]]], e |-> e + IntTz[IntAbs[n]]]

\* `n as f64`
F64FromInt[n \in Any] == F64Lit[n, 0]

F64Neg[a \in Any] == IF a.k = "nan" \/ F64IsZero[a] THEN a ELSE [a EXCEPT !.s = 1 - a.s]
F64Abs[a \in Any] == [a EXCEPT !.s = 0]

\* -1, 0, 1: the order of |a| and |b|, both finite
F64CmpMag[a \in Any, b \in Any] ==
  IF a.m = <<>> THEN (IF b.m = <<>> THEN 0 ELSE -1)
  ELSE IF b.m = <<>> THEN 1
  ELSE IF BBitLen[a.m] + a.e < BBitLen[b.m] + b.e THEN -1
  ELSE IF BBitLen[a.m] + a.e > BBitLen[b.m] + b.e THEN 1
  ELSE BCmp[BShl[a.m, a.e - IntMin[a.e, b.e]], BShl[b.m, b.e - IntMin[a.e, b.e]]]

\* -1, 0, 1: the sign of a, not NaN
F64Sign[a \in Any] == IF F64IsZero[a] THEN 0 ELSE IF a.s = 0 THEN 1 ELSE -1

\* -1, 0, 1: the order of a and b, neither NaN
F64Cmp[a \in Any, b \in Any] ==
  IF F64Sign[a] < F64Sign[b] THEN -1
  ELSE IF F64Sign[a] > F64Sign[b] THEN 1
  ELSE IF F64Sign[a] = 0 THEN 0
  ELSE IF a.k = "inf" THEN F64Sign[a] * (IF b.k = "inf" THEN 0 ELSE 1)
  ELSE IF b.k = "inf" THEN -F64Sign[a]
  ELSE F64Sign[a] * F64CmpMag[a, b]

F64Lt[a \in Any, b \in Any] == a.k # "nan" /\ b.k # "nan" /\ F64Cmp[a, b] < 0
F64Le[a \in Any, b \in Any] == a.k # "nan" /\ b.k # "nan" /\ F64Cmp[a, b] <= 0
F64Gt[a \in Any, b \in Any] == F64Lt[b, a]
F64Ge[a \in Any, b \in Any] == F64Le[b, a]
F64Eq[a \in Any, b \in Any] == a.k # "nan" /\ b.k # "nan" /\ F64Cmp[a, b] = 0

\* f64::min and f64::max: the other operand when one is NaN
F64Min(a, b) == IF a.k = "nan" THEN b ELSE IF b.k = "nan" THEN a ELSE IF F64Cmp[a, b] <= 0 THEN a ELSE b
F64Max(a, b) == IF a.k = "nan" THEN b ELSE IF b.k = "nan" THEN a ELSE IF F64Cmp[a, b] >= 0 THEN a ELSE b

\* The sum of (-1)^sa * A * 2^e and (-1)^sb * B * 2^e
F64AddAligned[sa \in Any, A \in Any, sb \in Any, B \in Any, e \in Any] ==
  F64Make[IF sa = sb \/ BCmp[A, B] > 0 THEN sa ELSE sb,
          IF sa = sb THEN BAdd[A, B] ELSE IF BCmp[A, B] > 0 THEN BSub[A, B] ELSE BSub[B, A],
          e]

F64Add[a \in Any, b \in Any] ==
  IF a.k = "nan" \/ b.k = "nan" THEN F64NaN
  ELSE IF a.k = "inf" THEN (IF b.k = "inf" /\ b.s # a.s THEN F64NaN ELSE a)
  ELSE IF b.k = "inf" THEN b
  ELSE IF a.m = <<>> THEN b
  ELSE IF b.m = <<>> THEN a
  ELSE F64AddAligned[a.s, BShl[a.m, a.e - IntMin[a.e, b.e]],
                     b.s, BShl[b.m, b.e - IntMin[a.e, b.e]], IntMin[a.e, b.e]]

F64Sub[a \in Any, b \in Any] == F64Add[a, F64Neg[b]]

F64Mul[a \in Any, b \in Any] ==
  IF a.k = "nan" \/ b.k = "nan" THEN F64NaN
  ELSE IF a.k = "inf" \/ b.k = "inf"
       THEN (IF F64IsZero[a] \/ F64IsZero[b] THEN F64NaN ELSE F64Inf[IF a.s = b.s THEN 0 ELSE 1])
  ELSE F64Make[IF a.s = b.s THEN 0 ELSE 1, BMul[a.m, b.m], a.e + b.e]

\* The shift of a's significand that leaves the quotient by b's with at least
\* 56 bits
F64DivShift[a \in Any, b \in Any] ==
  IF MantBits + 3 + BBitLen[b.m] > BBitLen[a.m] THEN MantBits + 3 + BBitLen[b.m] - BBitLen[a.m] ELSE 0

\* The f64 of a quotient and remainder qr with one more bit below the
\* quotient, set when the division is inexact
F64Quotient[s \in Any, qr \in Any, e \in Any] ==
  F64Make[s, BAdd[BShl[qr.q, 1], IF qr.r = <<>> THEN <<>> ELSE <<1>>], e - 1]

F64Div[a \in Any, b \in Any] ==
  IF a.k = "nan" \/ b.k = "nan" THEN F64NaN
  ELSE IF a.k = "inf" THEN (IF b.k = "inf" THEN F64NaN ELSE F64Inf[IF a.s = b.s THEN 0 ELSE 1])
  ELSE IF b.k = "inf" THEN F64Zero
  ELSE IF b.m = <<>> THEN (IF a.m = <<>> THEN F64NaN ELSE F64Inf[IF a.s = b.s THEN 0 ELSE 1])
  ELSE IF a.m = <<>> THEN F64Zero
  ELSE F64Quotient[IF a.s = b.s THEN 0 ELSE 1,
                   BDivMod[BShl[a.m, F64DivShift[a, b]], b.m],
                   a.e - b.e - F64DivShift[a, b]]

\* the integer part of |a| as a big integer, a finite
F64TruncMag[a \in Any] == IF a.e >= 0 THEN BShl[a.m, a.e] ELSE BShr[a.m, -a.e]

F64IsInt[a \in Any] == a.k = "fin" /\ (a.m = <<>> \/ a.e >= 0)

F64Floor[a \in Any] ==
  IF a.k # "fin" \/ F64IsInt[a] THEN a
  ELSE F64Make[a.s, BAdd[F64TruncMag[a], IF a.s = 0 THEN <<>> ELSE <<1>>], 0]

F64Ceil[a \in Any] == F64Neg[F64Floor[F64Neg[a]]]

\* f64::round: half away from zero
F64Round[a \in Any] ==
  IF a.k # "fin" \/ F64IsInt[a] THEN a
  ELSE F64Make[a.s, BAdd[F64TruncMag[a], IF BOdd[BShr[a.m, -a.e - 1]] THEN <<1>> ELSE <<>>], 0]

\* f64::clamp(lo, hi): NaN stays NaN
F64Clamp[a \in Any, lo \in Any, hi \in Any] ==
  IF a.k = "nan" THEN a ELSE IF F64Lt[a, lo] THEN lo ELSE IF F64Gt[a, hi] THEN hi ELSE a

I32Max == 2147483647
I32Min == -I32Max - 1

\* `a as i32`: truncates, saturates, NaN to 0
F64AsI32[a \in Any] ==
  IF a.k = "nan" THEN 0
  ELSE IF a.k = "inf" THEN (IF a.s = 0 THEN I32Max ELSE I32Min)
  ELSE IF BBitLen[F64TruncMag[a]] > 31 \/ (BBitLen[F64TruncMag[a]] = 31 /\ a.s = 0)
       THEN (IF a.s = 0 THEN I32Max ELSE I32Min)
  ELSE IF BBitLen[F64TruncMag[a]] = 31 THEN I32Min
  ELSE IF a.s = 0 THEN BToInt[F64TruncMag[a]] ELSE -BToInt[F64TruncMag[a]]

\* `a as u32` as a big integer (u32::MAX exceeds the checker's integers)
U32MaxBig == <<Base - 1, Base - 1, 3>>

F64AsU32Big[a \in Any] ==
  IF a.k = "nan" THEN <<>>
  ELSE IF a.s = 1 THEN <<>>
  ELSE IF a.k = "inf" THEN U32MaxBig
  ELSE IF BBitLen[F64TruncMag[a]] > 32 THEN U32MaxBig ELSE F64TruncMag[a]

\* `a as u8`
F64AsU8[a \in Any] ==
  IF a.k = "nan" THEN 0
  ELSE IF a.s = 1 THEN 0
  ELSE IF a.k = "inf" THEN 255
  ELSE IF BBitLen[F64TruncMag[a]] > 8 THEN 255 ELSE BToInt[F64TruncMag[a]]

\* i32 addition: wrapping when the build has overflow checks off
I32WrapAdd[a \in Any, b \in Any] ==
  IF a >= 0 /\ b > 0 /\ a > I32Max - b THEN (a - I32Max - 1) + (b - I32Max - 1)
  ELSE IF a < 0 /\ b < 0 /\ a < I32Min - b THEN (a + I32Max + 1) + (b + I32Max + 1)
  ELSE a + b

I32AddOverflows[a \in Any, b \in Any] ==
  \/ (a >= 0 /\ b > 0 /\ a > I32Max - b)
  \/ (a < 0 /\ b < 0 /\ a < I32Min - b)

\* ------------------------------------------------------------------------
\* Pixel buffers (image::RgbaImage): [w, h, px], px the row-major sequence of
\* <<r, g, b, a>> pixels.  A panic of the program is the buffer Panic.
\* ------------------------------------------------------------------------
Panic == [w |-> -1, h |-> -1, px |-> <<>>]
IsPanic(img) == img.w < 0

NoneBounds == [some |-> FALSE, v |-> <<0, 0, 0, 0>>]
SomeBounds(x, y, w, h) == [some |-> TRUE, v |-> <<x, y, w, h>>]

Transparent == <<0, 0, 0, 0>>

GetPixel(img, x, y) == img.px[y * img.w + x + 1]
InBuffer(img, x, y) == x >= 0 /\ x < img.w /\ y >= 0 /\ y < img.h

NewImage(w, h, f(_, _)) ==
  [w |-> w, h |-> h, px |-> [k \in 1..(w * h) |-> f((k - 1) % w, (k - 1) \div w)]]

SetMin(S) == CHOOSE m \in S : \A n \in S : m <= n
SetMax(S) == CHOOSE m \in S : \A n \in S : m >= n

\* The pixels the scan of find_sprite_bounds counts.
Qualifying(img, alpha_threshold) ==
  {c \in (0..(img.w - 1)) \X (0..(img.h - 1)) : GetPixel(img, c[1], c[2])[4] >= alpha_threshold}

\* find_sprite_bounds: min_x and min_y start at width and height, max_x and
\* max_y at 0; every qualifying pixel lowers the minima and raises the maxima.
find_sprite_bounds(img, alpha_threshold) ==
  LET Q == Qualifying(img, alpha_threshold)
      min_x == SetMin({img.w} \cup {c[1] : c \in Q})
      max_x == SetMax({0} \cup {c[1] : c \in Q})
      min_y == SetMin({img.h} \cup {c[2] : c \in Q})
      max_y == SetMax({0} \cup {c[2] : c \in Q})
  IN IF min_x <= max_x /\ min_y <= max_y
     THEN SomeBounds(min_x, min_y, max_x - min_x + 1, max_y - min_y + 1)
     ELSE NoneBounds

AlphaThreshold == 10

\* crop_to_content: get_pixel panics outside the buffer.
crop_to_content(img) ==
  LET bounds == find_sprite_bounds(img, AlphaThreshold)
      min_x == bounds.v[1]
      min_y == bounds.v[2]
      width == bounds.v[3]
      height == bounds.v[4]
      Src(x, y) == GetPixel(img, min_x + x, min_y + y)
  IN IF ~bounds.some THEN img
     ELSE IF \E x \in 0..(width - 1), y \in 0..(height - 1) : ~InBuffer(img, min_x + x, min_y + y)
          THEN Panic
     ELSE NewImage(width, height, Src)

\* ------------------------------------------------------------------------
\* transform.rs: premultiplied samples are <<r, g, b, a>> of f64
\* ------------------------------------------------------------------------
F64One == F64Lit[1, 0]
F64Half == F64Lit[1, -1]
F64U8Max == F64Lit[255, 0]

\* The sample of a pixel whose alpha / 255.0 is alpha
Premultiplied(pixel, alpha) ==
  Strict([c \in 1..4 |-> IF c = 4 THEN F64FromInt[pixel[4]]
                                ELSE F64Mul[F64FromInt[pixel[c]], alpha]])

\* premultiply_pixel with the alpha byte taken as the factor, the division by
\* 255.0 left out
premultiply_pixel_unscaled(pixel) == Premultiplied(pixel, F64FromInt[pixel[4]])

premultiply_pixel(pixel) == Premultiplied(pixel, F64Div[F64FromInt[pixel[4]], F64U8Max])

premultiply_alpha(img) == Strict([k \in 1..(img.w * img.h) |-> premultiply_pixel(img.px[k])])

\* The pixel of a sample whose alpha / 255.0 is alpha_norm
Channels(premultiplied, alpha_norm) ==
  Strict([c \in 1..4 |->
            F64AsU8[F64Clamp[IF c = 4 THEN premultiplied[4]
                                      ELSE F64Div[premultiplied[c], alpha_norm],
                             F64Zero, F64U8Max]]])

unpremultiply_alpha(premultiplied) ==
  IF F64Lt[premultiplied[4], F64One] THEN Transparent
  ELSE Channels(premultiplied, F64Div[premultiplied[4], F64U8Max])

\* Catmull-Rom weights
CubicWeights(t, t2, t3) ==
  <<F64Sub[F64Add[F64Mul[F64Lit[-1, -1], t3], t2], F64Mul[F64Half, t]],
    F64Add[F64Sub[F64Mul[F64Lit[3, -1], t3], F64Mul[F64Lit[5, -1], t2]], F64One],
    F64Add[F64Add[F64Mul[F64Lit[-3, -1], t3], F64Mul[F64Lit[2, 0], t2]], F64Mul[F64Half, t]],
    F64Sub[F64Mul[F64Half, t3], F64Mul[F64Half, t2]]>>

cubic_weight(t) == CubicWeights(t, F64Mul[t, t], F64Mul[F64Mul[t, t], t])

IntClamp(v, lo, hi) == IF v < lo THEN lo ELSE IF v > hi THEN hi ELSE v

\* `floor + i as i32 - 1` in i32: [panic, v]; it panics on overflow when the
\* build checks overflow (debug) and wraps when it does not (release).
TapCoord(floor, i, overflow_checks) ==
  [panic |-> overflow_checks /\ (I32AddOverflows[floor, i] \/ I32AddOverflows[I32WrapAdd[floor, i], -1]),
   v |-> I32WrapAdd[I32WrapAdd[floor, i], -1]]

\* The taps of the two loops, tap k = 4 * j + i + 1 with j the outer loop:
\* [idx, weight, panic], floor and w holding the x and the y axis
Taps(floor, w, width, height, overflow_checks) ==
  Strict([k \in 1..16 |->
    [idx |-> IntClamp(TapCoord(floor[2], (k - 1) \div 4, overflow_checks).v, 0, height - 1) * width
             + IntClamp(TapCoord(floor[1], (k - 1) % 4, overflow_checks).v, 0, width - 1) + 1,
     weight |-> F64Mul[w[1][((k - 1) % 4) + 1], w[2][((k - 1) \div 4) + 1]],
     panic |-> \/ TapCoord(floor[1], (k - 1) % 4, overflow_checks).panic
               \/ TapCoord(floor[2], (k - 1) \div 4, overflow_checks).panic]])

\* result[c] += premultiplied[idx][c] * weight, over the taps from k on in loop
\* order; a NaN sum stays NaN whatever is added
RECURSIVE TapSum(_, _, _, _, _)
TapSum(premultiplied, taps, c, k, result) ==
  IF result.k = "nan" \/ k > Len(taps) THEN result
  ELSE TapSum(premultiplied, taps, c, k + 1,
              F64Add[result, F64Mul[premultiplied[taps[k].idx][c], taps[k].weight]])

Interpolated(premultiplied, taps) ==
  [panic |-> \E k \in 1..16 : taps[k].panic,
   v |-> Strict([c \in 1..4 |-> TapSum(premultiplied, taps, c, 1, F64Zero)])]

\* bicubic_interpolate at = <<x, y>>, with floor = <<x.floor(), y.floor()>>
InterpolatedAt(premultiplied, width, height, at, floor, overflow_checks) ==
  Interpolated(premultiplied,
               Taps(Strict([d \in 1..2 |-> F64AsI32[floor[d]]]),
                    Strict([d \in 1..2 |-> cubic_weight(F64Sub[at[d], floor[d]])]),
                    width, height, overflow_checks))

\* bicubic_interpolate: [panic, v], v the interpolated premultiplied sample
bicubic_interpolate(premultiplied, width, height, x, y, overflow_checks) ==
  InterpolatedAt(premultiplied, width, height, <<x, y>>,
                 Strict([d \in 1..2 |-> F64Floor[<<x, y>>[d]]]), overflow_checks)

\* An output buffer from its per-pixel results [panic, v] in loop order.
Collect(w, h, results) ==
  IF \E k \in 1..(w * h) : results[k].panic THEN Panic
  ELSE [w |-> w, h |-> h, px |-> [k \in 1..(w * h) |-> results[k].v]]

\* The pixel put for an interpolated sample [panic, v]
Unpremultiplied(interpolated) ==
  [panic |-> interpolated.panic,
   v |-> IF interpolated.panic THEN Transparent ELSE unpremultiply_alpha(interpolated.v)]

BigMax(a, b) == IF BCmp[a, b] >= 0 THEN a ELSE b
BigMin(a, b) == IF BCmp[a, b] <= 0 THEN a ELSE b

\* (out as f64 + 0.5) / scale - 0.5
SrcCoord(out, scale) == F64Sub[F64Div[F64Add[F64FromInt[out], F64Half], scale], F64Half]

\* ScaledSide with the product truncated instead of rounded
ScaledSideTruncated(side, scale) ==
  BToInt[BigMax(F64AsU32Big[F64Mul[F64FromInt[side], scale]], <<1>>)]

\* ((side as f64 * scale).round() as u32).max(1)
ScaledSide(side, scale) ==
  BToInt[BigMax(F64AsU32Big[F64Round[F64Mul[F64FromInt[side], scale]]], <<1>>)]

\* The loops of resize_to_fit over the output pixels
ResizeOutput(premultiplied, width, height, scale, new_width, new_height, overflow_checks) ==
  Collect(new_width, new_height,
          Strict([k \in 1..(new_width * new_height) |->
                    Unpremultiplied(
                      bicubic_interpolate(premultiplied, width, height,
                                          SrcCoord((k - 1) % new_width, scale),
                                          SrcCoord((k - 1) \div new_width, scale),
                                          overflow_checks))]))

ResizeScaled(img, scale, overflow_checks) ==
  ResizeOutput(premultiply_alpha(img), img.w, img.h, scale,
               ScaledSide(img.w, scale), ScaledSide(img.h, scale), overflow_checks)

\* resize_to_fit
resize_to_fit(img, target_size, overflow_checks) ==
  IF img.w = 0 \/ img.h = 0 THEN img
  ELSE ResizeScaled(img, F64Div[F64FromInt[target_size], F64FromInt[IntMax[img.w, img.h]]],
                    overflow_checks)

\* ------------------------------------------------------------------------
\* geometry.rs: a Matrix3<f64> is <<row1, row2, row3>>, each row <<a, b, c>>
\* ------------------------------------------------------------------------
\* One row of matrix * (x, y, 1)
RowDot(row, x, y) ==
  F64Add[F64Add[F64Mul[row[1], x], F64Mul[row[2], y]], F64Mul[row[3], F64One]]

\* (result.x / result.z, result.y / result.z)
Projected(result) == Strict([c \in 1..2 |-> F64Div[result[c], result[3]]])

transform_point(matrix, x, y) == Projected(Strict([r \in 1..3 |-> RowDot(matrix[r], x, y)]))

\* fold(init, op) over the c-th coordinates of the first n points
RECURSIVE Fold(_, _, _, _, _)
Fold(op(_, _), init, points, c, n) ==
  IF n = 0 THEN init ELSE op(Fold(op, init, points, c, n - 1), points[n][c])

Corners(width, height) ==
  <<<<F64Zero, F64Zero>>,
    <<F64FromInt[width], F64Zero>>,
    <<F64Zero, F64FromInt[height]>>,
    <<F64FromInt[width], F64FromInt[height]>>>>

\* <<new_width, new_height, min_x, min_y>> from min = <<min_x, min_y>> and
\* max = <<max_x, max_y>>
OutputBox(min, max) ==
  <<F64AsU32Big[F64Ceil[F64Sub[max[1], min[1]]]],
    F64AsU32Big[F64Ceil[F64Sub[max[2], min[2]]]],
    min[1], min[2]>>

BoundsOf(transformed) ==
  OutputBox(Strict([c \in 1..2 |-> Fold(F64Min, F64Inf[0], transformed, c, 4)]),
            Strict([c \in 1..2 |-> Fold(F64Max, F64Inf[1], transformed, c, 4)]))

\* compute_output_bounds: <<new_width, new_height, min_x, min_y>>, the two
\* dimensions as u32 held in limbs
compute_output_bounds(matrix, width, height) ==
  BoundsOf(Strict([i \in 1..4 |->
             transform_point(matrix, Corners(width, height)[i][1], Corners(width, height)[i][2])]))

\* (a * b - c * d) / determinant
Cofactor(a, b, c, d, determinant) == F64Div[F64Sub[F64Mul[a, b], F64Mul[c, d]], determinant]

Inverse3(m, minor_m12_m23, minor_m11_m23, minor_m11_m22, determinant) ==
  IF F64Eq[determinant, F64Zero] THEN [some |-> FALSE, v |-> m]
  ELSE [some |-> TRUE,
        v |-> <<<<F64Div[minor_m12_m23, determinant],
                  Cofactor(m[1][3], m[3][2], m[3][3], m[1][2], determinant),
                  Cofactor(m[1][2], m[2][3], m[2][2], m[1][3], determinant)>>,
                <<F64Div[F64Neg[minor_m11_m23], determinant],
                  Cofactor(m[1][1], m[3][3], m[3][1], m[1][3], determinant),
                  Cofactor(m[1][3], m[2][1], m[2][3], m[1][1], determinant)>>,
                <<F64Div[minor_m11_m22, determinant],
                  Cofactor(m[1][2], m[3][1], m[3][2], m[1][1], determinant),
                  Cofactor(m[1][1], m[2][2], m[2][1], m[1][2], determinant)>>>>]

Minors3(m, minor_m12_m23, minor_m11_m23, minor_m11_m22) ==
  Inverse3(m, minor_m12_m23, minor_m11_m23, minor_m11_m22,
           F64Add[F64Sub[F64Mul[m[1][1], minor_m12_m23], F64Mul[m[1][2], minor_m11_m23]],
                  F64Mul[m[1][3], minor_m11_m22]])

\* Matrix3::try_inverse of the matrix library: [some, v]
try_inverse(m) ==
  Minors3(m,
          F64Sub[F64Mul[m[2][2], m[3][3]], F64Mul[m[3][2], m[2][3]]],
          F64Sub[F64Mul[m[2][1], m[3][3]], F64Mul[m[3][1], m[2][3]]],
          F64Sub[F64Mul[m[2][1], m[3][2]], F64Mul[m[3][1], m[2][2]]])

\* ------------------------------------------------------------------------
\* transform.rs: resampling
\* ------------------------------------------------------------------------
\* SemiTransparent without the upper limit on the alpha
SemiTransparentUnlimited(alpha) == alpha > 0

\* pixel[3] > 0 && pixel[3] < 32
SemiTransparent(alpha) == alpha > 0 /\ alpha < 32

\* One step of a pass that reads the buffer it writes: the k-th pixel, in the
\* order of the loops, decided on the pixels cleaned so far
CleanedInPlace[cleaned \in Any, k \in Any] ==
  IF /\ (k - 1) % cleaned.w >= 1 /\ (k - 1) % cleaned.w < cleaned.w - 1
     /\ (k - 1) \div cleaned.w >= 1 /\ (k - 1) \div cleaned.w < cleaned.h - 1
     /\ cleaned.px[k][4] > 0 /\ cleaned.px[k][4] < 32
     /\ Cardinality({n \in {k - 1, k + 1, k - cleaned.w, k + cleaned.w} : cleaned.px[n][4] = 0}) >= 3
  THEN [cleaned EXCEPT !.px[k] = Transparent]
  ELSE cleaned

RECURSIVE CleanedUpTo(_, _)
CleanedUpTo(img, k) == IF k = 0 THEN img ELSE CleanedInPlace[CleanedUpTo(img, k - 1), k]

\* clean_edges writing into the buffer it reads instead of a copy
clean_edges_in_place(img, overflow_checks) == CleanedUpTo(img, img.w * img.h)

\* clean_edges: the loops run over 1..height - 1 and 1..width - 1 in u32.  On a
\* buffer with a zero side the subtraction panics where overflow is checked;
\* where it wraps, the loop reaches get_pixel(1, 1), which panics outside the
\* buffer.
clean_edges(img, overflow_checks) ==
  LET width == img.w
      height == img.h
      Alpha(x, y) == GetPixel(img, x, y)[4]
      transparent_count(x, y) ==
        Cardinality({n \in {<<x - 1, y>>, <<x + 1, y>>, <<x, y - 1>>, <<x, y + 1>>} :
                       Alpha(n[1], n[2]) = 0})
      Cleaned(x, y) ==
        IF /\ x >= 1 /\ x < width - 1 /\ y >= 1 /\ y < height - 1
           /\ SemiTransparent(Alpha(x, y))
           /\ transparent_count(x, y) >= 3
        THEN Transparent
        ELSE GetPixel(img, x, y)
  IN IF height = 0
     THEN IF overflow_checks \/ width = 0 \/ width >= 3 THEN Panic ELSE img
     ELSE IF height <= 2 THEN img
     ELSE IF width = 0 THEN Panic
     ELSE NewImage(width, height, Cleaned)

\* The pixel put for the source position src = <<src_x, src_y>>
TransformedPixel(premultiplied, src_width, src_height, src, overflow_checks) ==
  IF /\ F64Ge[src[1], F64Lit[-1, 0]] /\ F64Le[src[1], F64FromInt[src_width]]
     /\ F64Ge[src[2], F64Lit[-1, 0]] /\ F64Le[src[2], F64FromInt[src_height]]
  THEN Unpremultiplied(bicubic_interpolate(premultiplied, src_width, src_height,
                                           src[1], src[2], overflow_checks))
  ELSE [panic |-> FALSE, v |-> Transparent]

\* The loops of apply_affine_transform over the output pixels
TransformOutput(premultiplied, src_width, src_height, inverse_matrix, new_width, new_height, offset_x, offset_y, overflow_checks) ==
  Collect(new_width, new_height,
          Strict([k \in 1..(new_width * new_height) |->
                    TransformedPixel(premultiplied, src_width, src_height,
                                     transform_point(inverse_matrix,
                                                     F64Add[F64FromInt[(k - 1) % new_width], offset_x],
                                                     F64Add[F64FromInt[(k - 1) \div new_width], offset_y]),
                                     overflow_checks)]))

CleanedOutput(output, overflow_checks) ==
  IF IsPanic(output) THEN Panic ELSE clean_edges(output, overflow_checks)

\* apply_affine_transform from the bounds and the inverse [some, v] on
Mapped(img, bounds, inverse_matrix, overflow_checks) ==
  IF ~inverse_matrix.some THEN img
  ELSE CleanedOutput(
         TransformOutput(premultiply_alpha(img), img.w, img.h, inverse_matrix.v,
                         BToInt[BigMin(BigMax(bounds[1], <<1>>), BFromInt[img.w * 3])],
                         BToInt[BigMin(BigMax(bounds[2], <<1>>), BFromInt[img.h * 3])],
                         bounds[3], bounds[4], overflow_checks),
         overflow_checks)

apply_affine_transform(img, forward_matrix, overflow_checks) ==
  Mapped(img, compute_output_bounds(forward_matrix, img.w, img.h), try_inverse(forward_matrix),
         overflow_checks)

\* ------------------------------------------------------------------------
\* State
\* ------------------------------------------------------------------------
VARIABLES
  pc,               \* where the run is
  img,              \* the source buffer
  alpha_threshold,  \* find_sprite_bounds' threshold
  forward_matrix,   \* the matrix handed to apply_affine_transform
  target_size,      \* cli.size
  overflow_checks,  \* whether the build checks integer overflow
  detected_lines,   \* the lines of one class, or of the run: [angle_degrees, length]
  ratio,            \* cli.ratio
  bounds,           \* what find_sprite_bounds returned
  angles,           \* the estimate (detection.rs) or DetectedAngles (geometry.rs)
  output,           \* the buffer the last stage returned
  stages            \* the stages run so far, in order

vars == <<pc, img, alpha_threshold, forward_matrix, target_size, overflow_checks,
          detected_lines, ratio, bounds, angles, output, stages>>

EmptyImage == [w |-> 0, h |-> 0, px |-> <<>>]
Identity == <<<<F64One, F64Zero, F64Zero>>, <<F64Zero, F64One, F64Zero>>, <<F64Zero, F64Zero, F64One>>>>
NoAngles == [left_angle |-> F64Zero, right_angle |-> F64Zero,
             left_confidence |-> F64Zero, right_confidence |-> F64Zero]

\* The W x H buffers that are one pixel of `bgs` everywhere but at no more than
\* `marks` positions, which hold a pixel of `palette`.
Buffers(W, H, bgs, palette, marks) ==
  UNION {UNION {{[w |-> W, h |-> H,
                  px |-> [k \in 1..(W * H) |-> IF k \in T THEN f[k] ELSE bg]] :
                    f \in [T -> palette]} :
                  T \in {U \in SUBSET (1..(W * H)) : Cardinality(U) <= marks}} :
           bg \in bgs}

\* ------------------------------------------------------------------------
\* find_sprite_bounds and crop_to_content on any buffer, zero sides included
\* ------------------------------------------------------------------------
MaxSide == 2
MaxMarks == 3
BoundsPalette == {<<0, 0, 0, 0>>, <<9, 9, 9, 9>>, <<200, 100, 50, 10>>, <<10, 20, 30, 255>>}
Thresholds == {0, 10, 255}

InitBounds ==
  /\ pc = "start"
  /\ \E W \in 0..MaxSide, H \in 0..MaxSide : img \in Buffers(W, H, BoundsPalette, BoundsPalette, MaxMarks)
  /\ alpha_threshold \in Thresholds
  /\ forward_matrix = Identity
  /\ target_size = 0
  /\ overflow_checks = FALSE
  /\ detected_lines = <<>>
  /\ ratio = <<2, 1>>
  /\ bounds = NoneBounds
  /\ angles = NoAngles
  /\ output = EmptyImage
  /\ stages = <<>>

FindSpriteBounds ==
  /\ pc = "start"
  /\ bounds' = find_sprite_bounds(img, alpha_threshold)
  /\ pc' = "find_sprite_bounds"
  /\ stages' = Append(stages, "find_sprite_bounds")
  /\ UNCHANGED <<img, alpha_threshold, forward_matrix, target_size, overflow_checks,
                 detected_lines, ratio, angles, output>>

CropToContent ==
  /\ pc = "start"
  /\ output' = crop_to_content(img)
  /\ pc' = "crop_to_content"
  /\ stages' = Append(stages, "crop_to_content")
  /\ UNCHANGED <<img, alpha_threshold, forward_matrix, target_size, overflow_checks,
                 detected_lines, ratio, bounds, angles>>

NextBounds ==
  \/ FindSpriteBounds
  \/ CropToContent

SpecBounds == InitBounds /\ [][NextBounds]_vars

\* The positions of img whose alpha is at least t.
AtLeast(t) == {c \in (0..(img.w - 1)) \X (0..(img.h - 1)) : img.px[c[2] * img.w + c[1] + 1][4] >= t}

\* The box (min_x, min_y, max_x-min_x+1, max_y-min_y+1) over the nonempty set Q.
BoxOver(Q) ==
  LET xs == {c[1] : c \in Q}
      ys == {c[2] : c \in Q}
      x0 == CHOOSE x \in xs : \A o \in xs : x <= o
      x1 == CHOOSE x \in xs : \A o \in xs : x >= o
      y0 == CHOOSE y \in ys : \A o \in ys : y <= o
      y1 == CHOOSE y \in ys : \A o \in ys : y >= o
  IN <<x0, y0, x1 - x0 + 1, y1 - y0 + 1>>

\* C1: find_sprite_bounds(img, t) returns "no content" exactly when no pixel
\* has alpha >= t; otherwise the box over the pixels with alpha >= t, which has
\* positive width and height, lies inside the image, and has a qualifying pixel
\* on each of its four border rows and columns; a fully opaque W x H buffer
\* gives (0, 0, W, H).
C1_Bounds ==
  pc = "find_sprite_bounds" =>
    LET Q == AtLeast(alpha_threshold)
        b == bounds.v
    IN /\ (~bounds.some) <=> (Q = {})
       /\ bounds.some =>
            /\ Q # {} => b = BoxOver(Q)
            /\ b[3] > 0 /\ b[4] > 0
            /\ b[1] + b[3] <= img.w /\ b[2] + b[4] <= img.h
            /\ \E c \in Q : c[1] = b[1]
            /\ \E c \in Q : c[1] = b[1] + b[3] - 1
            /\ \E c \in Q : c[2] = b[2]
            /\ \E c \in Q : c[2] = b[2] + b[4] - 1
       /\ (img.w > 0 /\ img.h > 0 /\ \A k \in 1..(img.w * img.h) : img.px[k][4] = 255)
            => bounds = SomeBounds(0, 0, img.w, img.h)

\* The 0 x 0 buffer has no pixel at all, and find_sprite_bounds reports the
\* box (0, 0, 1, 1) for it.
C1_EmptyBufferHasBox ==
  /\ pc = "find_sprite_bounds"
  /\ img.w = 0 /\ img.h = 0
  /\ bounds = SomeBounds(0, 0, 1, 1)

\* C8: crop_to_content(img) returns img unchanged if no pixel has alpha >= 10;
\* otherwise a buffer of the bounding box's width and height whose pixel (x, y)
\* is img's pixel (min_x + x, min_y + y); cropping the result again returns it
\* unchanged.
C8_Crop ==
  pc = "crop_to_content" =>
    LET Q == AtLeast(AlphaThreshold)
    IN IF Q = {} THEN output = img
       ELSE LET b == BoxOver(Q)
            IN /\ output.w = b[3] /\ output.h = b[4]
               /\ \A x \in 0..(b[3] - 1), y \in 0..(b[4] - 1) :
                    output.px[y * b[3] + x + 1] = img.px[(b[2] + y) * img.w + b[1] + x + 1]
               /\ crop_to_content(output) = output

\* crop_to_content of the 0 x 0 buffer reads pixel (0, 0) of it and panics.
C8_EmptyBufferPanics ==
  /\ pc = "crop_to_content"
  /\ img.w = 0 /\ img.h = 0
  /\ IsPanic(output)

\* ------------------------------------------------------------------------
\* apply_affine_transform: the identity on buffers of mixed alpha, and every
\* matrix of Matrices on the buffers of at most one pixel
\* ------------------------------------------------------------------------
Opaque == <<10, 20, 30, 255>>
TransformPalette == {Transparent, <<255, 0, 0, 0>>, <<11, 22, 44, 3>>, Opaque}
MaxTransformSide == 3
MaxTransformMarks == 1

Diag(a, b) == <<<<a, F64Zero, F64Zero>>, <<F64Zero, b, F64Zero>>, <<F64Zero, F64Zero, F64One>>>>
ZeroMatrix == <<<<F64Zero, F64Zero, F64Zero>>, <<F64Zero, F64Zero, F64Zero>>, <<F64Zero, F64Zero, F64Zero>>>>

\* Rows <<a, b, c>> of small integers
Rows(r1, r2, r3) ==
  <<<<F64FromInt[r1[1]], F64FromInt[r1[2]], F64FromInt[r1[3]]>>,
    <<F64FromInt[r2[1]], F64FromInt[r2[2]], F64FromInt[r2[3]]>>,
    <<F64FromInt[r3[1]], F64FromInt[r3[2]], F64FromInt[r3[3]]>>>>

\* Two equal rows of 2^600: the products of the determinant are infinite
Overflowing ==
  <<<<F64Lit[1, 600], F64Lit[1, 600], F64Zero>>, <<F64Lit[1, 600], F64Lit[1, 600], F64Zero>>,
    <<F64Zero, F64Zero, F64One>>>>

\* Matrices with a row that is 0, 1 or 2 times another row: zero extent, all
\* zero, an affine one of rank 2, one of rank 1 that is not affine, and the
\* overflowing one
SingularMatrices ==
  {Diag(F64Zero, F64Zero), ZeroMatrix, Rows(<<1, 2, 0>>, <<2, 4, 0>>, <<0, 0, 1>>),
   Rows(<<1, 2, 3>>, <<2, 4, 6>>, <<1, 2, 3>>), Overflowing}

\* identity, singular with zero extent, all zero, enormous, minute, doubling
Matrices ==
  {Identity, Diag(F64Zero, F64Zero), ZeroMatrix, Diag(F64Lit[1, 40], F64Lit[1, 40]),
   Diag(F64Lit[1, -60], F64Lit[1, -60]), Diag(F64Lit[2, 0], F64Lit[2, 0])}

IdentityImages ==
  UNION {Buffers(d[1], d[2], {Transparent}, TransformPalette, MaxTransformMarks) :
           d \in (1..MaxTransformSide) \X (1..MaxTransformSide)}

\* one opaque pixel, and the buffers with a zero side
SizeImages ==
  UNION {Buffers(d[1], d[2], {Opaque}, {Opaque}, 0) :
           d \in {e \in (0..MaxTransformSide) \X (0..MaxTransformSide) : e[1] * e[2] <= 1}}

TransformInputs ==
  (IdentityImages \X ({Identity} \cup SingularMatrices)) \cup (SizeImages \X (Matrices \cup SingularMatrices))

InitTransform ==
  /\ pc = "start"
  /\ \E input \in TransformInputs : img = input[1] /\ forward_matrix = input[2]
  /\ overflow_checks \in BOOLEAN
  /\ alpha_threshold = AlphaThreshold
  /\ target_size = 0
  /\ detected_lines = <<>>
  /\ ratio = <<2, 1>>
  /\ bounds = NoneBounds
  /\ angles = NoAngles
  /\ output = EmptyImage
  /\ stages = <<>>

ApplyAffineTransform ==
  /\ pc = "start"
  /\ output' = apply_affine_transform(img, forward_matrix, overflow_checks)
  /\ pc' = "apply_affine_transform"
  /\ stages' = Append(stages, "apply_affine_transform")
  /\ UNCHANGED <<img, alpha_threshold, forward_matrix, target_size, overflow_checks,
                 detected_lines, ratio, bounds, angles>>

NextTransform == ApplyAffineTransform

SpecTransform == InitTransform /\ [][NextTransform]_vars

\* C2 as stated: the identity transform returns a buffer of img's width and
\* height whose every pixel has img's R, G, B and A at the same position.
C2_IdentityExact ==
  (pc = "apply_affine_transform" /\ forward_matrix = Identity) =>
    (output.w = img.w /\ output.h = img.h /\ output.px = img.px)

\* Position k of img is strictly inside the buffer, its alpha is in 1..31, and
\* at least three of its four neighbours have alpha 0.
Isolated(k) ==
  LET x == (k - 1) % img.w
      y == (k - 1) \div img.w
      A(i, j) == img.px[j * img.w + i + 1][4]
  IN /\ x >= 1 /\ x < img.w - 1 /\ y >= 1 /\ y < img.h - 1
     /\ img.px[k][4] > 0 /\ img.px[k][4] < 32
     /\ Cardinality({n \in {<<x - 1, y>>, <<x + 1, y>>, <<x, y - 1>>, <<x, y + 1>>} :
                       A(n[1], n[2]) = 0}) >= 3

\* Pixel q is pixel p after the premultiplied round trip: an alpha of 0 gives
\* (0, 0, 0, 0), an alpha of 255 gives p, and any other alpha is kept with
\* each colour channel kept or lowered by one.
RoundTripped(p, q) ==
  IF p[4] = 0 THEN q = Transparent
  ELSE /\ q[4] = p[4]
       /\ \A c \in 1..3 : q[c] = p[c] \/ q[c] = p[c] - 1
       /\ p[4] = 255 => q = p

\* C2, amended: the identity transform of a buffer with no zero side returns
\* a buffer of the same width and height; an isolated low-alpha pixel comes
\* out as (0, 0, 0, 0), and every other pixel comes out round-tripped: opaque
\* pixels exactly, alpha-0 pixels as (0, 0, 0, 0), the rest with their alpha
\* and each colour channel equal or one lower.  A buffer with a zero side
\* comes back as it is, or the call panics.
C2_IdentityTransform ==
  (pc = "apply_affine_transform" /\ forward_matrix = Identity) =>
    IF img.w = 0 \/ img.h = 0 THEN IsPanic(output) \/ output = img
    ELSE /\ output.w = img.w /\ output.h = img.h
         /\ \A k \in 1..(img.w * img.h) :
              IF Isolated(k) THEN output.px[k] = Transparent
              ELSE RoundTripped(img.px[k], output.px[k])

\* The identity transform has lowered the red channel of a pixel of alpha 3.
C2_Witness ==
  /\ pc = "apply_affine_transform" /\ forward_matrix = Identity
  /\ \E k \in 1..(img.w * img.h) :
       /\ img.px[k] = <<11, 22, 44, 3>>
       /\ output.px[k][1] = 10 /\ output.px[k][4] = 3

\* C6 as stated: whatever the source and the matrix, the buffer returned has a
\* width in [1, 3W] and a height in [1, 3H].
C6_Dimensions ==
  pc = "apply_affine_transform" =>
    /\ output.w >= 1 /\ output.w <= 3 * img.w
    /\ output.h >= 1 /\ output.h <= 3 * img.h

\* apply_affine_transform has returned a buffer of width 0.
C6_ZeroWidthReturned ==
  /\ pc = "apply_affine_transform"
  /\ output.w = 0

\* Row r times c
Scaled(r, c) == <<F64Mul[r[1], F64FromInt[c]], F64Mul[r[2], F64FromInt[c]], F64Mul[r[3], F64FromInt[c]]>>

\* A row of m is 0, 1 or 2 times another row of m: the determinant of m is zero
Dependent(m) == \E i, j \in 1..3 : i # j /\ \E c \in 0..2 : m[i] = Scaled(m[j], c)

\* Every entry of m is below 2^500 in magnitude
Moderate(m) == \A i, j \in 1..3 : F64Lt[F64Abs[m[i][j]], F64Lit[1, 500]]

\* C11 as stated: with a forward matrix whose determinant is zero the call
\* returns a buffer identical to the source, neither resampled nor cleaned.
C11_SingularUnchanged ==
  (pc = "apply_affine_transform" /\ Dependent(forward_matrix)) => output = img

\* C11, amended: when the determinant try_inverse computes in f64 is zero, so
\* that the inversion fails, the call returns a buffer identical to the
\* source, neither resampled nor cleaned; that is the case for every matrix
\* with a row 0, 1 or 2 times another whose entries are below 2^500.
C11_InversionFailed ==
  pc = "apply_affine_transform" =>
    /\ ~try_inverse(forward_matrix).some => output = img
    /\ (Dependent(forward_matrix) /\ Moderate(forward_matrix)) => ~try_inverse(forward_matrix).some

\* The rank-1 matrix has been applied to a buffer whose centre pixel the edge
\* cleanup would clear, and the buffer has come back as it was.
C11_Witness ==
  /\ pc = "apply_affine_transform"
  /\ forward_matrix = Rows(<<1, 2, 3>>, <<2, 4, 6>>, <<1, 2, 3>>)
  /\ img.w = 3 /\ img.h = 3 /\ Isolated(5)
  /\ output = img

\* ------------------------------------------------------------------------
\* resize_to_fit on its own: single-colour buffers of every small size, zero
\* sides included, and a tall buffer whose width lands halfway between two
\* integers at size 15
\* ------------------------------------------------------------------------
MaxResizeSide == 3
MaxSize == 2

TallBuffer == [w |-> 11, h |-> 22, px |-> [k \in 1..(11 * 22) |-> Transparent]]

ResizeImages ==
  UNION {Buffers(d[1], d[2], {Opaque}, {Opaque}, 0) :
           d \in (0..MaxResizeSide) \X (0..MaxResizeSide)}

ResizeInputs == (ResizeImages \X (0..MaxSize)) \cup {<<TallBuffer, 15>>}

InitResize ==
  /\ pc = "start"
  /\ \E input \in ResizeInputs : img = input[1] /\ target_size = input[2]
  /\ overflow_checks \in BOOLEAN
  /\ alpha_threshold = AlphaThreshold
  /\ forward_matrix = Identity
  /\ detected_lines = <<>>
  /\ ratio = <<2, 1>>
  /\ bounds = NoneBounds
  /\ angles = NoAngles
  /\ output = EmptyImage
  /\ stages = <<>>

\* resize_to_fit of the source buffer, or of what crop_to_content returned
ResizeToFit ==
  /\ pc \in {"start", "crop_to_content"}
  /\ pc = "crop_to_content" => ~IsPanic(output)
  /\ output' = resize_to_fit(IF pc = "start" THEN img ELSE output, target_size, overflow_checks)
  /\ pc' = "resize_to_fit"
  /\ stages' = Append(stages, "resize_to_fit")
  /\ UNCHANGED <<img, alpha_threshold, forward_matrix, target_size, overflow_checks,
                 detected_lines, ratio, bounds, angles>>

NextResize == ResizeToFit

SpecResize == InitResize /\ [][NextResize]_vars

\* n / d rounded to the nearest integer, halves away from zero (n >= 0, d > 0)
RoundDiv(n, d) == (2 * n + d) \div (2 * d)

\* C7 as stated: for W, H >= 1 and any S the result has width
\* max(1, round(W*S/max(W,H))) and height max(1, round(H*S/max(W,H))), its
\* longest side is exactly S and both sides are >= 1; a buffer with a zero side
\* is returned unchanged.
C7_ExactDimensions ==
  (pc = "resize_to_fit" /\ stages = <<"resize_to_fit">>) =>
    IF img.w = 0 \/ img.h = 0 THEN output = img
    ELSE LET longest == IF img.w >= img.h THEN img.w ELSE img.h
         IN /\ output.w = (IF RoundDiv(img.w * target_size, longest) >= 1
                           THEN RoundDiv(img.w * target_size, longest) ELSE 1)
            /\ output.h = (IF RoundDiv(img.h * target_size, longest) >= 1
                           THEN RoundDiv(img.h * target_size, longest) ELSE 1)
            /\ (IF output.w >= output.h THEN output.w ELSE output.h) = target_size
            /\ output.w >= 1 /\ output.h >= 1

\* Side r is side d scaled by S / longest and rounded to a nearest integer (a
\* value halfway between two integers may go either way), raised to 1.
NearestSide(r, d, S, longest) ==
  \/ r = 1 /\ 2 * d * S <= longest
  \/ r >= 1 /\ 2 * longest * r >= 2 * d * S - longest /\ 2 * longest * r <= 2 * d * S + longest

\* C7, amended: for W, H >= 1 and S >= 1 each side of the result is the
\* source side scaled by S/max(W,H) and rounded to a nearest integer, a value
\* exactly halfway going up or down, and raised to 1; the longest side is
\* exactly S.  For S = 0 the result is one transparent pixel where overflow
\* wraps and a panic where overflow is checked.  A buffer with a zero side is
\* returned unchanged.
C7_Resize ==
  (pc = "resize_to_fit" /\ stages = <<"resize_to_fit">>) =>
    IF img.w = 0 \/ img.h = 0 THEN output = img
    ELSE IF target_size = 0
         THEN IF overflow_checks THEN IsPanic(output)
              ELSE output = [w |-> 1, h |-> 1, px |-> <<Transparent>>]
    ELSE LET longest == IF img.w >= img.h THEN img.w ELSE img.h
         IN /\ NearestSide(output.w, img.w, target_size, longest)
            /\ NearestSide(output.h, img.h, target_size, longest)
            /\ (IF output.w >= output.h THEN output.w ELSE output.h) = target_size

\* The 11 x 22 buffer resized to 15 has come out 7 wide, where 11*15/22 = 7.5.
C7_Witness ==
  /\ pc = "resize_to_fit"
  /\ img.w = 11 /\ img.h = 22 /\ target_size = 15
  /\ output.w = 7 /\ output.h = 15

\* ------------------------------------------------------------------------
\* crop_to_content and then resize_to_fit, as main runs them, on buffers of
\* mixed alpha
\* ------------------------------------------------------------------------
MaxCropSide == 2
MaxCropMarks == 1
Faded == <<31, 59, 62, 10>>
CropPalette == {Transparent, <<255, 0, 0, 0>>, Faded, Opaque}

CropImages ==
  UNION {Buffers(d[1], d[2], {Transparent, Opaque}, CropPalette, MaxCropMarks) :
           d \in (0..MaxCropSide) \X (0..MaxCropSide)}

InitCropResize ==
  /\ pc = "start"
  /\ img \in CropImages
  /\ target_size \in 0..MaxSize
  /\ overflow_checks \in BOOLEAN
  /\ alpha_threshold = AlphaThreshold
  /\ forward_matrix = Identity
  /\ detected_lines = <<>>
  /\ ratio = <<2, 1>>
  /\ bounds = NoneBounds
  /\ angles = NoAngles
  /\ output = EmptyImage
  /\ stages = <<>>

ResizeCropped == pc = "crop_to_content" /\ ResizeToFit

NextCropResize ==
  \/ CropToContent
  \/ ResizeCropped

SpecCropResize == InitCropResize /\ [][NextCropResize]_vars

\* img is already cropped (its bounding box at threshold 10 is the whole
\* buffer) and its longest side is the target size.
CroppedAndSized ==
  /\ AtLeast(AlphaThreshold) # {}
  /\ BoxOver(AtLeast(AlphaThreshold)) = <<0, 0, img.w, img.h>>
  /\ target_size = (IF img.w >= img.h THEN img.w ELSE img.h)

\* C3 as stated: on an already cropped buffer whose longest side is S,
\* resize_to_fit(crop_to_content(B), S) has B's dimensions and B's pixels.
C3_Idempotent ==
  (stages = <<"crop_to_content", "resize_to_fit">> /\ CroppedAndSized) =>
    (output.w = img.w /\ output.h = img.h /\ output.px = img.px)

\* C3, amended: on an already cropped buffer whose longest side is S,
\* resize_to_fit(crop_to_content(B), S) has B's dimensions, and every pixel is
\* B's pixel round-tripped: opaque pixels exactly, alpha-0 pixels as
\* (0, 0, 0, 0), the rest with their alpha and each colour channel equal or
\* one lower.
C3_CropResize ==
  (stages = <<"crop_to_content", "resize_to_fit">> /\ CroppedAndSized) =>
    /\ output.w = img.w /\ output.h = img.h
    /\ \A k \in 1..(img.w * img.h) : RoundTripped(img.px[k], output.px[k])

\* Crop and resize of an already cropped and sized buffer have changed a
\* pixel of it.
C3_Witness ==
  /\ stages = <<"crop_to_content", "resize_to_fit">>
  /\ CroppedAndSized
  /\ output.w = img.w /\ output.h = img.h
  /\ \E k \in 1..(img.w * img.h) : output.px[k] # img.px[k]

\* ------------------------------------------------------------------------
\* detection.rs and geometry.rs: from Hough lines to DetectedAngles
\* ------------------------------------------------------------------------
\* std::f64::consts::PI and FRAC_PI_2
PI == F64Bits[<<1443, 21777, 4349, 25>>, -48]
FRAC_PI_2 == F64Bits[<<1443, 21777, 4349, 25>>, -49]

\* f64::to_degrees: self * (180.0 / PI)
to_degrees(a) == F64Mul[a, F64Div[F64Lit[180, 0], PI]]

\* f64::atan, on the quotients v / h of Ratios: 1/2 and 1
atan(x) ==
  IF F64Eq[x, F64Half] THEN F64Bits[<<15183, 2755, 12700, 237>>, -54]
  ELSE IF F64Eq[x, F64One] THEN F64Bits[<<1443, 21777, 4349, 25>>, -50]
  ELSE F64NaN

\* IsometricRatio, <<horizontal, vertical>>
target_angle(self) == atan(F64Div[F64FromInt[self[2]], F64FromInt[self[1]]])
target_angle_degrees(self) == to_degrees(target_angle(self))

RECURSIVE NormalizeDown(_)
NormalizeDown(degrees) ==
  IF F64Gt[degrees, F64Lit[90, 0]] THEN NormalizeDown(F64Sub[degrees, F64Lit[180, 0]]) ELSE degrees

RECURSIVE NormalizeUp(_)
NormalizeUp(degrees) ==
  IF F64Lt[degrees, F64Lit[-90, 0]] THEN NormalizeUp(F64Add[degrees, F64Lit[180, 0]]) ELSE degrees

\* polar_to_angle_degrees giving the angle of the normal, FRAC_PI_2 not taken off
polar_to_normal_degrees(angle_in_degrees) ==
  NormalizeUp(NormalizeDown(to_degrees(
    F64Div[F64Mul[F64FromInt[angle_in_degrees], PI], F64Lit[180, 0]])))

\* polar_to_angle_degrees, theta_rad being angle_in_degrees * PI / 180.0
polar_to_angle_degrees(angle_in_degrees) ==
  NormalizeUp(NormalizeDown(to_degrees(
    F64Sub[F64Div[F64Mul[F64FromInt[angle_in_degrees], PI], F64Lit[180, 0]], FRAC_PI_2])))

\* The DetectedLine of each Hough line [angle_in_degrees, length], length being
\* the count estimate_line_length made on the edge image.
DetectedLines(polar_lines) ==
  Strict([i \in 1..Len(polar_lines) |->
            [angle_degrees |-> polar_to_angle_degrees(polar_lines[i].angle_in_degrees),
             length |-> F64FromInt[polar_lines[i].length]]])

InLeftRange(line) ==
  F64Ge[line.angle_degrees, F64Lit[-60, 0]] /\ F64Le[line.angle_degrees, F64Lit[-15, 0]]
InRightRange(line) ==
  F64Ge[line.angle_degrees, F64Lit[15, 0]] /\ F64Le[line.angle_degrees, F64Lit[60, 0]]

\* classify_lines taking the right class by steepness alone, whatever the sign
classify_lines_by_steepness(lines) ==
  <<SelectSeq(lines, InLeftRange),
    SelectSeq(lines, LAMBDA line : InRightRange([line EXCEPT !.angle_degrees = F64Abs[@]]))>>

\* classify_lines: <<left_sloping, right_sloping>>
classify_lines(lines) ==
  <<SelectSeq(lines, InLeftRange),
    SelectSeq(lines, LAMBDA line : ~InLeftRange(line) /\ InRightRange(line))>>

RECURSIVE SumOf(_, _)
SumOf(values, n) == IF n = 0 THEN F64Zero ELSE F64Add[SumOf(values, n - 1), values[n]]

\* sort_by on the angle: stable
Inserted(sorted, last, k) == SubSeq(sorted, 1, k) \o <<last>> \o SubSeq(sorted, k + 1, Len(sorted))

Placed(sorted, last) ==
  Inserted(sorted, last, Cardinality({i \in 1..Len(sorted) : F64Le[sorted[i][1], last[1]]}))

RECURSIVE SortByAngle(_)
SortByAngle(pairs) ==
  IF Len(pairs) = 0 THEN <<>>
  ELSE Placed(SortByAngle(SubSeq(pairs, 1, Len(pairs) - 1)), pairs[Len(pairs)])

\* MedianFrom stopping only when the sum exceeds the half weight
RECURSIVE MedianFromStrict(_, _, _, _)
MedianFromStrict(sorted, i, cumulative, half_weight) ==
  IF F64Gt[cumulative, half_weight] THEN [found |-> TRUE, angle |-> sorted[i][1]]
  ELSE IF i = Len(sorted) THEN [found |-> FALSE, angle |-> F64Zero]
  ELSE MedianFromStrict(sorted, i + 1, F64Add[cumulative, sorted[i + 1][2]], half_weight)

\* The loop of weighted_median from position i on, cumulative being the sum
\* with the length at i added: [found, angle]
RECURSIVE MedianFrom(_, _, _, _)
MedianFrom(sorted, i, cumulative, half_weight) ==
  IF F64Ge[cumulative, half_weight] THEN [found |-> TRUE, angle |-> sorted[i][1]]
  ELSE IF i = Len(sorted) THEN [found |-> FALSE, angle |-> F64Zero]
  ELSE MedianFrom(sorted, i + 1, F64Add[cumulative, sorted[i + 1][2]], half_weight)

\* Median with the confidence left uncapped, the .min(1.0) left out
MedianUncapped(weighted_sum, total_weight, median, confidence) ==
  [some |-> TRUE,
   angle |-> IF median.found THEN median.angle ELSE F64Div[weighted_sum, total_weight],
   confidence |-> confidence]

\* The angle and the confidence of weighted_median: [some, angle, confidence]
Median(weighted_sum, total_weight, median, confidence) ==
  [some |-> TRUE,
   angle |-> IF median.found THEN median.angle ELSE F64Div[weighted_sum, total_weight],
   confidence |-> F64Min(confidence, F64One)]

\* Weighed with the quotient of the confidence inverted
WeighedInverted(lines, sorted, total_weight) ==
  IF F64Eq[total_weight, F64Zero]
  THEN [some |-> FALSE, angle |-> F64Zero, confidence |-> F64Zero]
  ELSE Median(SumOf([i \in 1..Len(lines) |-> F64Mul[lines[i].angle_degrees, lines[i].length]],
                    Len(lines)),
              total_weight,
              MedianFrom(sorted, 1, F64Add[F64Zero, sorted[1][2]], F64Div[total_weight, F64Lit[2, 0]]),
              F64Div[F64Mul[F64FromInt[Len(lines)], F64Lit[100, 0]], total_weight])

Weighed(lines, sorted, total_weight) ==
  IF F64Eq[total_weight, F64Zero]
  THEN [some |-> FALSE, angle |-> F64Zero, confidence |-> F64Zero]
  ELSE Median(SumOf([i \in 1..Len(lines) |-> F64Mul[lines[i].angle_degrees, lines[i].length]],
                    Len(lines)),
              total_weight,
              MedianFrom(sorted, 1, F64Add[F64Zero, sorted[1][2]], F64Div[total_weight, F64Lit[2, 0]]),
              F64Div[total_weight, F64Mul[F64FromInt[Len(lines)], F64Lit[100, 0]]])

\* weighted_median: [some, angle, confidence]
weighted_median(lines) ==
  IF Len(lines) = 0
  THEN [some |-> FALSE, angle |-> F64Zero, confidence |-> F64Zero]
  ELSE Weighed(lines,
               SortByAngle([i \in 1..Len(lines) |-> <<lines[i].angle_degrees, lines[i].length>>]),
               SumOf([i \in 1..Len(lines) |-> lines[i].length], Len(lines)))

\* 26.565, the angle detect_isometric_angles falls back to
DefaultAngle == F64Div[F64Lit[26565, 0], F64Lit[1000, 0]]

\* The DetectedAngles from the weighted medians of the two classes
Estimate(left, right) ==
  [left_angle |-> IF left.some THEN left.angle ELSE F64Neg[DefaultAngle],
   right_angle |-> IF right.some THEN right.angle ELSE DefaultAngle,
   left_confidence |-> IF left.some THEN left.confidence ELSE F64Zero,
   right_confidence |-> IF right.some THEN right.confidence ELSE F64Zero]

\* median = <<left, right>>, the weighted medians of the two classes
Medians(median) == Estimate(median[1], median[2])

\* detect_isometric_angles from the classification on: the DetectedAngles
Classified(classes) == Medians(Strict([d \in 1..2 |-> weighted_median(classes[d])]))

EstimateAngles(lines) == Classified(classify_lines(lines))

\* is_close_to_target from target_angle_degrees on
Close(self, target_angle_deg, tolerance_degrees) ==
  /\ F64Lt[F64Abs[F64Sub[F64Abs[self.left_angle], target_angle_deg]], tolerance_degrees]
  /\ F64Lt[F64Abs[F64Sub[self.right_angle, target_angle_deg]], tolerance_degrees]

\* is_close_to_target judging the right angle only
is_close_on_the_right(self, target, tolerance_degrees) ==
  F64Lt[F64Abs[F64Sub[self.right_angle, target_angle_degrees(target)]], tolerance_degrees]

is_close_to_target(self, target, tolerance_degrees) ==
  Close(self, target_angle_degrees(target), tolerance_degrees)

Tolerance == F64Lit[2, 0]

\* f64::cos and f64::sin of the math library, on the angles the model's
\* lines, fallback and ratios give: x in radians
TrigTable ==
  { \* the fallback angle, 26.565 degrees
   [x |-> F64Bits[<<10041, 25414, 15192>>, -45],
    cos |-> F64Bits[<<3663, 14441, 31898, 228>>, -53],
    sin |-> F64Bits[<<11581, 22490, 31881, 228>>, -54]],
   \* atan(1/2)
   [x |-> F64Bits[<<15183, 2755, 12700, 237>>, -54],
    cos |-> F64Bits[<<28121, 2943, 31895, 228>>, -53],
    sin |-> F64Bits[<<28121, 2943, 31895, 228>>, -54]],
   \* the slope of Hough angle 117, 27.0 degrees
   [x |-> F64Bits[<<13973, 26173, 2609, 15>>, -50],
    cos |-> F64Bits[<<11373, 14970, 3200, 228>>, -53],
    sin |-> F64Bits[<<8815, 11819, 14876>>, -45]],
   \* the slope of Hough angle 45, -45.0 degrees and atan(1)
   [x |-> F64Bits[<<1443, 21777, 4349, 25>>, -50],
    cos |-> F64Bits[<<15309, 19710, 633, 181>>, -53],
    sin |-> F64Bits[<<20211, 13119, 8350, 45>>, -51]],
   \* the slope of Hough angle 137, 47.0 degrees
   [x |-> F64Bits[<<21947, 24372, 16367, 52>>, -51],
    cos |-> F64Bits[<<7211, 29465, 19384, 174>>, -53],
    sin |-> F64Bits[<<13505, 24776, 20095, 93>>, -52]],
   \* the slope of Hough angle 31, -58.99999999999999 degrees
   [x |-> F64Bits[<<17039, 9140, 7797, 8>>, -48],
    cos |-> F64Bits[<<24341, 16891, 27844, 131>>, -53],
    sin |-> F64Bits[<<27357, 15597, 14248, 219>>, -53]],
   \* the slope of Hough angle 105, 15.000000000000009 degrees
   [x |-> F64Bits[<<11885, 3595, 24745, 16>>, -51],
    cos |-> F64Bits[<<12229, 9124, 26845, 61>>, -51],
    sin |-> F64Bits[<<1683, 806, 16887, 132>>, -54]]}

TrigOf(x) == CHOOSE t \in TrigTable : t.x = F64Abs[x]
cos(x) == TrigOf(x).cos
sin(x) == [TrigOf(x).sin EXCEPT !.s = x.s]

\* f64::to_radians: self * (PI / 180.0)
to_radians(a) == F64Mul[a, F64Div[PI, F64Lit[180, 0]]]

Inverse2(m, determinant) ==
  IF F64Eq[determinant, F64Zero] THEN [some |-> FALSE, v |-> m]
  ELSE [some |-> TRUE,
        v |-> <<<<F64Div[m[2][2], determinant], F64Div[F64Neg[m[1][2]], determinant]>>,
                <<F64Div[F64Neg[m[2][1]], determinant], F64Div[m[1][1], determinant]>>>>]

\* Matrix2::try_inverse of the matrix library, m = <<row1, row2>>: [some, v]
try_inverse2(m) == Inverse2(m, F64Sub[F64Mul[m[1][1], m[2][2]], F64Mul[m[2][1], m[1][2]]])

\* The matrix product a * b of n x n matrices, each entry summed in order.
RECURSIVE DotFrom(_, _, _, _, _)
DotFrom(a, b, i, j, k) ==
  IF k = 1 THEN F64Mul[a[i][1], b[1][j]]
  ELSE F64Add[DotFrom(a, b, i, j, k - 1), F64Mul[a[i][k], b[k][j]]]

MatMul(a, b) ==
  Strict([i \in 1..Len(a) |-> Strict([j \in 1..Len(a) |-> DotFrom(a, b, i, j, Len(a))])])

\* from_columns(left, right) of the unit vectors along two angles
Basis(left_rad, right_rad) ==
  <<<<cos(left_rad), cos(right_rad)>>, <<sin(left_rad), sin(right_rad)>>>>

\* Corrected without the translation to the origin: translate_back * transform
CorrectedFromOrigin(transform_2x2, cx, cy) ==
  MatMul(<<<<F64One, F64Zero, cx>>,
           <<F64Zero, F64One, cy>>,
           <<F64Zero, F64Zero, F64One>>>>,
         <<<<transform_2x2[1][1], transform_2x2[1][2], F64Zero>>,
           <<transform_2x2[2][1], transform_2x2[2][2], F64Zero>>,
           <<F64Zero, F64Zero, F64One>>>>)

\* translate_back * transform * translate_to_origin
Corrected(transform_2x2, cx, cy) ==
  MatMul(MatMul(<<<<F64One, F64Zero, cx>>,
                  <<F64Zero, F64One, cy>>,
                  <<F64Zero, F64Zero, F64One>>>>,
                <<<<transform_2x2[1][1], transform_2x2[1][2], F64Zero>>,
                  <<transform_2x2[2][1], transform_2x2[2][2], F64Zero>>,
                  <<F64Zero, F64Zero, F64One>>>>),
         <<<<F64One, F64Zero, F64Neg[cx]>>,
           <<F64Zero, F64One, F64Neg[cy]>>,
           <<F64Zero, F64Zero, F64One>>>>)

\* b_target * inv, or the identity when b_current is singular
Transform2(b_target, inv) ==
  IF inv.some THEN MatMul(b_target, inv.v) ELSE <<<<F64One, F64Zero>>, <<F64Zero, F64One>>>>

compute_correction_matrix(detected, target, center) ==
  Corrected(Transform2(Basis(F64Neg[target_angle(target)], target_angle(target)),
                       try_inverse2(Basis(to_radians(detected.left_angle),
                                          to_radians(detected.right_angle)))),
            center[1], center[2])

\* The center detect_isometric_angles takes from the bounds
CenterOf(b) ==
  <<F64Add[F64FromInt[b[1]], F64Div[F64FromInt[b[3]], F64Lit[2, 0]]],
    F64Add[F64FromInt[b[2]], F64Div[F64FromInt[b[4]], F64Lit[2, 0]]]>>

\* ------------------------------------------------------------------------
\* The angle estimate of detect_isometric_angles, on the lines the Hough
\* detector may return: each an angle in whole degrees and a support count
\* ------------------------------------------------------------------------
MaxLines == 2
Thetas == {30, 45, 63, 90, 117, 137}
Lengths == {0, 40, 250}
Ratios == {<<2, 1>>, <<1, 1>>}

PolarLines == [angle_in_degrees : Thetas, length : Lengths]
LineSeqs(n) == UNION {[1..m -> PolarLines] : m \in 0..n}

InitAngles ==
  /\ pc = "start"
  /\ detected_lines \in LineSeqs(MaxLines)
  /\ ratio \in Ratios
  /\ img = EmptyImage
  /\ alpha_threshold = AlphaThreshold
  /\ forward_matrix = Identity
  /\ target_size = 0
  /\ overflow_checks = FALSE
  /\ bounds = NoneBounds
  /\ angles = NoAngles
  /\ output = EmptyImage
  /\ stages = <<>>

DetectAngles ==
  /\ pc = "start"
  /\ angles' = EstimateAngles(DetectedLines(detected_lines))
  /\ pc' = "detect_isometric_angles"
  /\ stages' = Append(stages, "detect_isometric_angles")
  /\ UNCHANGED <<img, alpha_threshold, forward_matrix, target_size, overflow_checks,
                 detected_lines, ratio, bounds, output>>

NextAngles == DetectAngles

SpecAngles == InitAngles /\ [][NextAngles]_vars

\* The detected lines whose slope angle is in [lo, hi] degrees, in order.
ClassOf(lo, hi) ==
  SelectSeq(DetectedLines(detected_lines),
            LAMBDA line : /\ F64Cmp[line.angle_degrees, F64FromInt[lo]] >= 0
                          /\ F64Cmp[line.angle_degrees, F64FromInt[hi]] <= 0)

\* The class is empty or its support lengths are all 0.
NoSupport(class) == \A i \in 1..Len(class) : class[i].length = F64Zero

\* C4: a side whose class is empty or has total support length 0 is reported
\* with confidence 0 and the exact target angle of the requested ratio,
\* -atan(v/h) on the left and +atan(v/h) on the right; so a run with zero
\* detected lines is judged already correct.
C4_DefaultIsTarget ==
  pc = "detect_isometric_angles" =>
    /\ NoSupport(ClassOf(-60, -15)) =>
         /\ angles.left_confidence = F64Zero
         /\ angles.left_angle = F64Neg[target_angle_degrees(ratio)]
    /\ NoSupport(ClassOf(15, 60)) =>
         /\ angles.right_confidence = F64Zero
         /\ angles.right_angle = target_angle_degrees(ratio)
    /\ Len(detected_lines) = 0 => is_close_to_target(angles, ratio, Tolerance)

\* With ratio 1:1 and no line detected, the estimate is not close to the
\* target.
C4_NoLinesNotClose ==
  /\ pc = "detect_isometric_angles"
  /\ Len(detected_lines) = 0
  /\ ratio = <<1, 1>>
  /\ ~is_close_to_target(angles, ratio, Tolerance)

\* The confidence min(1, L/100) of a single line of support length L.
SingleConfidence(length) ==
  IF F64Cmp[length, F64Lit[100, 0]] >= 0 THEN F64One ELSE F64Div[length, F64Lit[100, 0]]

\* The one line of the class is estimated as its angle with confidence
\* min(1, L/100).
EstimatedAsLine(class, angle, confidence) ==
  /\ angle = class[1].angle_degrees
  /\ confidence = SingleConfidence(class[1].length)

\* C5 as stated: a class of exactly one line with angle a and support length
\* L, for any L >= 0, is estimated as angle a with confidence min(1, L/100).
C5_SingleLineAnyLength ==
  pc = "detect_isometric_angles" =>
    LET left == ClassOf(-60, -15)
        right == ClassOf(15, 60)
    IN /\ Len(left) = 1 => EstimatedAsLine(left, angles.left_angle, angles.left_confidence)
       /\ Len(right) = 1 => EstimatedAsLine(right, angles.right_angle, angles.right_confidence)

\* C5, amended: a class of exactly one line with angle a and support length
\* L > 0 is estimated as angle a with confidence min(1, L/100); with L = 0 the
\* estimate is the fallback angle (-26.565 left, 26.565 right) with
\* confidence 0.
C5_SingleLine ==
  pc = "detect_isometric_angles" =>
    LET left == ClassOf(-60, -15)
        right == ClassOf(15, 60)
    IN /\ Len(left) = 1 =>
            IF left[1].length = F64Zero
            THEN angles.left_angle = F64Neg[DefaultAngle] /\ angles.left_confidence = F64Zero
            ELSE EstimatedAsLine(left, angles.left_angle, angles.left_confidence)
       /\ Len(right) = 1 =>
            IF right[1].length = F64Zero
            THEN angles.right_angle = DefaultAngle /\ angles.right_confidence = F64Zero
            ELSE EstimatedAsLine(right, angles.right_angle, angles.right_confidence)

\* A left class of one line of length 40 has been estimated as that line's
\* angle with confidence 0.4, beside a right class of one line of length 250
\* estimated with confidence 1.
C5_Witness ==
  /\ pc = "detect_isometric_angles"
  /\ LET left == ClassOf(-60, -15)
         right == ClassOf(15, 60)
     IN /\ Len(left) = 1 /\ Len(right) = 1
        /\ left[1].length = F64Lit[40, 0]
        /\ right[1].length = F64Lit[250, 0]
        /\ angles.left_angle = left[1].angle_degrees
        /\ angles.left_confidence = F64Div[F64Lit[40, 0], F64Lit[100, 0]]
        /\ angles.right_confidence = F64One

\* ------------------------------------------------------------------------
\* The angle estimate on classes of up to three lines: two left slopes and a
\* right one, with lengths that tie at the half weight and that saturate
\* ------------------------------------------------------------------------
MaxClassLines == 3
ClassThetas == {45, 63, 117}
ClassLengths == {0, 30, 250}

InitEstimate ==
  /\ pc = "start"
  /\ detected_lines \in UNION {[1..m -> [angle_in_degrees : ClassThetas, length : ClassLengths]] :
                                 m \in 0..MaxClassLines}
  /\ ratio = <<2, 1>>
  /\ img = EmptyImage
  /\ alpha_threshold = AlphaThreshold
  /\ forward_matrix = Identity
  /\ target_size = 0
  /\ overflow_checks = FALSE
  /\ bounds = NoneBounds
  /\ angles = NoAngles
  /\ output = EmptyImage
  /\ stages = <<>>

SpecEstimate == InitEstimate /\ [][NextAngles]_vars

\* The total support length of a class
TotalOf(class) == SumOf(Strict([i \in 1..Len(class) |-> class[i].length]), Len(class))

\* The total support length of the lines of the class with angle <= a
TotalUpTo(class, a) == TotalOf(SelectSeq(class, LAMBDA line : F64Le[line.angle_degrees, a]))

\* a is the smallest angle of a line of the class at which the summed length
\* of the lines with angle <= a is at least half the total
IsWeightedMedian(class, a) ==
  /\ \E i \in 1..Len(class) : class[i].angle_degrees = a
  /\ F64Ge[TotalUpTo(class, a), F64Div[TotalOf(class), F64Lit[2, 0]]]
  /\ \A i \in 1..Len(class) :
       F64Lt[class[i].angle_degrees, a] =>
         F64Lt[TotalUpTo(class, class[i].angle_degrees), F64Div[TotalOf(class), F64Lit[2, 0]]]

\* The loop of weighted_median over the class ends without reaching the half
\* weight
FallbackTaken(class) ==
  ~MedianFrom(SortByAngle(Strict([i \in 1..Len(class) |-> <<class[i].angle_degrees, class[i].length>>])),
              1,
              F64Add[F64Zero, SortByAngle(Strict([i \in 1..Len(class) |-> <<class[i].angle_degrees, class[i].length>>]))[1][2]],
              F64Div[TotalOf(class), F64Lit[2, 0]]).found

\* The detected lines in the order p
Reordered(p) == Strict([i \in 1..Len(detected_lines) |-> detected_lines[p[i]]])

\* C13: for a class of positive total support length the estimate is the
\* smallest angle of the class at which the cumulative length, in ascending
\* angle order, reaches half the total; it is the angle of a line of the
\* class; the weighted-mean fallback is not taken; and the estimate is the
\* same for every order of the lines.
C13_WeightedMedian ==
  pc = "detect_isometric_angles" =>
    /\ ~NoSupport(ClassOf(-60, -15)) =>
         /\ IsWeightedMedian(ClassOf(-60, -15), angles.left_angle)
         /\ ~FallbackTaken(ClassOf(-60, -15))
    /\ ~NoSupport(ClassOf(15, 60)) =>
         /\ IsWeightedMedian(ClassOf(15, 60), angles.right_angle)
         /\ ~FallbackTaken(ClassOf(15, 60))
    /\ \A p \in Permutations(1..Len(detected_lines)) :
         EstimateAngles(DetectedLines(Reordered(p))) = angles

\* Three left lines given out of angle order, the half weight 155 reached at
\* the second line of slope -45: the estimate is -45.
C13_Witness ==
  /\ pc = "detect_isometric_angles"
  /\ detected_lines = <<[angle_in_degrees |-> 63, length |-> 30],
                        [angle_in_degrees |-> 45, length |-> 250],
                        [angle_in_degrees |-> 45, length |-> 30]>>
  /\ angles.left_angle = F64FromInt[-45]
  /\ angles.left_confidence = F64One

\* The confidences are in [0, 1]
InUnitRange(confidence) == F64Ge[confidence, F64Zero] /\ F64Le[confidence, F64One]

\* C14 as stated: each confidence is in [0, 1], and of two classes the one
\* with no more total support length has no more confidence.
C14_Monotone ==
  pc = "detect_isometric_angles" =>
    /\ InUnitRange(angles.left_confidence) /\ InUnitRange(angles.right_confidence)
    /\ F64Le[TotalOf(ClassOf(-60, -15)), TotalOf(ClassOf(15, 60))] =>
         F64Le[angles.left_confidence, angles.right_confidence]
    /\ F64Le[TotalOf(ClassOf(15, 60)), TotalOf(ClassOf(-60, -15))] =>
         F64Le[angles.right_confidence, angles.left_confidence]

\* C14, amended: each confidence is in [0, 1], and of two classes with the
\* same number of lines the one with no more total support length has no more
\* confidence.
C14_MonotonePerCount ==
  pc = "detect_isometric_angles" =>
    /\ InUnitRange(angles.left_confidence) /\ InUnitRange(angles.right_confidence)
    /\ Len(ClassOf(-60, -15)) = Len(ClassOf(15, 60)) =>
         /\ F64Le[TotalOf(ClassOf(-60, -15)), TotalOf(ClassOf(15, 60))] =>
              F64Le[angles.left_confidence, angles.right_confidence]
         /\ F64Le[TotalOf(ClassOf(15, 60)), TotalOf(ClassOf(-60, -15))] =>
              F64Le[angles.right_confidence, angles.left_confidence]

\* One left line of length 30 and one right line of length 250: confidence
\* 0.3 on the left and 1 on the right.
C14_Witness ==
  /\ pc = "detect_isometric_angles"
  /\ Len(ClassOf(-60, -15)) = 1 /\ Len(ClassOf(15, 60)) = 1
  /\ TotalOf(ClassOf(-60, -15)) = F64FromInt[30] /\ TotalOf(ClassOf(15, 60)) = F64FromInt[250]
  /\ angles.left_confidence = F64Div[F64FromInt[30], F64FromInt[100]]
  /\ angles.right_confidence = F64One

\* ------------------------------------------------------------------------
\* compute_correction_matrix on its own: every pair of angles among the
\* slopes the model's lines give, the fallback angle and the exact target of
\* 2:1, of either sign, so that equal and opposite directions occur; both
\* ratios; the centres of a few boxes
\* ------------------------------------------------------------------------
Degrees ==
  {F64FromInt[27], F64FromInt[45], F64FromInt[47], DefaultAngle, target_angle_degrees(<<2, 1>>)}

SignedDegrees == Degrees \cup {F64Neg[d] : d \in Degrees}

\* <<min_x, min_y, width, height>>
Boxes == {<<0, 0, 1, 1>>, <<1, 2, 3, 3>>, <<0, 0, 100, 100>>}

InitCorrection ==
  /\ pc = "start"
  /\ \E left \in SignedDegrees, right \in SignedDegrees :
       angles = [left_angle |-> left, right_angle |-> right,
                 left_confidence |-> F64One, right_confidence |-> F64One]
  /\ ratio \in Ratios
  /\ \E box \in Boxes : bounds = SomeBounds(box[1], box[2], box[3], box[4])
  /\ img = EmptyImage
  /\ alpha_threshold = AlphaThreshold
  /\ forward_matrix = Identity
  /\ target_size = 0
  /\ overflow_checks = FALSE
  /\ detected_lines = <<>>
  /\ output = EmptyImage
  /\ stages = <<>>

ComputeCorrectionMatrix ==
  /\ pc = "start"
  /\ forward_matrix' = compute_correction_matrix(angles, ratio, CenterOf(bounds.v))
  /\ pc' = "compute_correction_matrix"
  /\ stages' = Append(stages, "compute_correction_matrix")
  /\ UNCHANGED <<img, alpha_threshold, target_size, overflow_checks, detected_lines, ratio,
                 bounds, angles, output>>

NextCorrection == ComputeCorrectionMatrix

SpecCorrection == InitCorrection /\ [][NextCorrection]_vars

\* The detected angles are the target angles of the ratio, -alpha and +alpha
AtTarget ==
  /\ angles.left_angle = F64Neg[target_angle_degrees(ratio)]
  /\ angles.right_angle = target_angle_degrees(ratio)

\* The 2 x 2 linear part of an affine matrix
LinearPart(m) == <<<<m[1][1], m[1][2]>>, <<m[2][1], m[2][2]>>>>

\* Points around the centre c
Around(c) ==
  {<<F64Add[c[1], F64FromInt[d[1]]], F64Add[c[2], F64FromInt[d[2]]]>> : d \in {<<0, 0>>, <<1, 0>>, <<0, 1>>, <<-3, 7>>}}

PivotImage == transform_point(forward_matrix, CenterOf(bounds.v)[1], CenterOf(bounds.v)[2])

\* |a - b| < 2^-45
Near(a, b) == F64Lt[F64Abs[F64Sub[a, b]], F64Lit[1, -45]]

\* b_current of the detected angles has no inverse
SingularBasis ==
  ~try_inverse2(Basis(to_radians(angles.left_angle), to_radians(angles.right_angle))).some

MaxCleanWidth == 4
MaxCleanHeight == 3
MaxCleanMarks == 3
CleanPalette == {<<9, 9, 9, 1>>, <<200, 100, 50, 31>>, <<10, 20, 30, 32>>}

InitClean ==
  /\ pc = "start"
  /\ \E W \in 1..MaxCleanWidth, H \in 1..MaxCleanHeight :
       img \in Buffers(W, H, {Transparent}, CleanPalette, MaxCleanMarks)
  /\ overflow_checks \in BOOLEAN
  /\ alpha_threshold = AlphaThreshold
  /\ forward_matrix = Identity
  /\ target_size = 0
  /\ detected_lines = <<>>
  /\ ratio = <<2, 1>>
  /\ bounds = NoneBounds
  /\ angles = NoAngles
  /\ output = EmptyImage
  /\ stages = <<>>

CleanEdges ==
  /\ pc = "start"
  /\ output' = clean_edges(img, overflow_checks)
  /\ pc' = "clean_edges"
  /\ stages' = Append(stages, "clean_edges")
  /\ UNCHANGED <<img, alpha_threshold, forward_matrix, target_size, overflow_checks,
                 detected_lines, ratio, bounds, angles>>

NextClean == CleanEdges

SpecClean == InitClean /\ [][NextClean]_vars

\* The alpha of the pixel at (x, y) of the buffer before the pass
AlphaBefore(x, y) == GetPixel(img, x, y)[4]

\* In the buffer before the pass the pixel at (x, y) is interior, has an alpha
\* from 1 to 31 and at least 3 of its 4 orthogonal neighbours have alpha 0
Stray(x, y) ==
  /\ 1 <= x /\ x <= img.w - 2 /\ 1 <= y /\ y <= img.h - 2
  /\ AlphaBefore(x, y) \in 1..31
  /\ \E kept \in {<<-1, 0>>, <<1, 0>>, <<0, -1>>, <<0, 1>>} :
       \A d \in {<<-1, 0>>, <<1, 0>>, <<0, -1>>, <<0, 1>>} \ {kept} :
         AlphaBefore(x + d[1], y + d[2]) = 0

\* C16: after the pass the buffer has the size it had, exactly the pixels
\* that were stray in the buffer before the pass are (0, 0, 0, 0), and every
\* other pixel (border, alpha 0, alpha >= 32 included) is as it was.
C16_FrameEffect ==
  pc = "clean_edges" =>
    /\ output.w = img.w /\ output.h = img.h
    /\ \A x \in 0..(img.w - 1), y \in 0..(img.h - 1) :
         GetPixel(output, x, y) = IF Stray(x, y) THEN Transparent ELSE GetPixel(img, x, y)

\* Two neighbouring interior pixels of alpha 31 with an opaque-enough pixel to
\* the right: the left one has three transparent neighbours and is cleaned,
\* the right one had two before the pass and is kept.
C16_Witness ==
  /\ pc = "clean_edges"
  /\ img.w = 4 /\ img.h = 3
  /\ GetPixel(img, 1, 1) = <<200, 100, 50, 31>>
  /\ GetPixel(img, 2, 1) = <<200, 100, 50, 31>>
  /\ GetPixel(img, 3, 1) = <<10, 20, 30, 32>>
  /\ GetPixel(output, 1, 1) = Transparent
  /\ GetPixel(output, 2, 1) = <<200, 100, 50, 31>>
  /\ GetPixel(output, 3, 1) = <<10, 20, 30, 32>>

\* ------------------------------------------------------------------------
\* The slope angle of one line for every angle of the normal the line
\* detector returns
\* ------------------------------------------------------------------------
MaxTheta == 179

InitSlope ==
  /\ pc = "start"
  /\ detected_lines \in {<<[angle_in_degrees |-> theta, length |-> 40]>> : theta \in 0..MaxTheta}
  /\ ratio = <<2, 1>>
  /\ img = EmptyImage
  /\ alpha_threshold = AlphaThreshold
  /\ forward_matrix = Identity
  /\ target_size = 0
  /\ overflow_checks = FALSE
  /\ bounds = NoneBounds
  /\ angles = NoAngles
  /\ output = EmptyImage
  /\ stages = <<>>

SpecSlope == InitSlope /\ [][NextAngles]_vars

\* The slope angle of the i-th line
SlopeOf(i) == DetectedLines(detected_lines)[i].angle_degrees

\* theta - 90 shifted by a multiple of 180
Shifted(theta) == {F64FromInt[theta - 90 + 180 * k] : k \in -1..1}

\* C15 as stated: the slope angle of every line is theta - 90 shifted by a
\* multiple of 180 and lies in (-90, 90], for theta from 0 to 179.
C15_SlopeAngle ==
  pc = "detect_isometric_angles" =>
    \A i \in 1..Len(detected_lines) :
      /\ F64Gt[SlopeOf(i), F64FromInt[-90]] /\ F64Le[SlopeOf(i), F64FromInt[90]]
      /\ SlopeOf(i) \in Shifted(detected_lines[i].angle_in_degrees)

\* a and b differ by less than 2^-40
WithinRounding(a, b) == F64Lt[F64Abs[F64Sub[a, b]], F64Lit[1, -40]]

\* C15, amended: the slope angle of every line is within 2^-40 degree of
\* theta - 90 shifted by a multiple of 180 and lies in [-90, 90], for theta
\* from 0 to 179; for theta = 0 it is -90.
C15_SlopeAngleRounded ==
  pc = "detect_isometric_angles" =>
    \A i \in 1..Len(detected_lines) :
      /\ F64Ge[SlopeOf(i), F64FromInt[-90]] /\ F64Le[SlopeOf(i), F64FromInt[90]]
      /\ \E a \in Shifted(detected_lines[i].angle_in_degrees) : WithinRounding(SlopeOf(i), a)
      /\ detected_lines[i].angle_in_degrees = 0 => SlopeOf(i) = F64FromInt[-90]

\* The line of theta = 0 after the detection: its slope angle is -90 and it
\* is in neither class.
C15_Witness ==
  /\ pc = "detect_isometric_angles"
  /\ detected_lines[1].angle_in_degrees = 0
  /\ SlopeOf(1) = F64FromInt[-90]
  /\ angles.left_confidence = F64Zero /\ angles.right_confidence = F64Zero

\* ------------------------------------------------------------------------
\* main.rs: one run of the program on a decoded image
\* ------------------------------------------------------------------------
MaxPipelineSide == 1
MaxPipelineLines == 2
MaxPipelineSize == 1
PipelineThetas == {30, 31, 45, 105, 117, 137, 150}

PipelineImages ==
  UNION {Buffers(d[1], d[2], {Transparent}, {Transparent, Opaque}, 1) :
           d \in (1..MaxPipelineSide) \X (1..MaxPipelineSide)}

\* What the edge and line detectors may hand back
PipelineLineSeqs ==
  UNION {[1..m -> [angle_in_degrees : PipelineThetas, length : {40}]] : m \in 0..MaxPipelineLines}

Init ==
  /\ pc = "start"
  /\ img \in PipelineImages
  /\ ratio \in Ratios
  /\ target_size \in 0..MaxPipelineSize
  /\ overflow_checks \in BOOLEAN
  /\ alpha_threshold = AlphaThreshold
  /\ forward_matrix = Identity
  /\ detected_lines = <<>>
  /\ bounds = NoneBounds
  /\ angles = NoAngles
  /\ output = EmptyImage
  /\ stages = <<>>

\* detect_isometric_angles: the error of `?` when no bounds are found ends the
\* run; otherwise the lines found give the angles.
Detect ==
  /\ pc = "start"
  /\ stages' = Append(stages, "detect_isometric_angles")
  /\ LET found == find_sprite_bounds(img, alpha_threshold)
     IN IF ~found.some
        THEN /\ pc' = "aborted"
             /\ UNCHANGED <<bounds, detected_lines, angles>>
        ELSE /\ pc' = "detected"
             /\ bounds' = found
             /\ \E lines \in PipelineLineSeqs :
                  /\ detected_lines' = lines
                  /\ angles' = EstimateAngles(DetectedLines(lines))
  /\ UNCHANGED <<img, alpha_threshold, forward_matrix, target_size, overflow_checks, ratio, output>>

\* The branch of main that corrects: compute_correction_matrix, then
\* apply_affine_transform
Transform ==
  /\ pc = "detected"
  /\ ~is_close_to_target(angles, ratio, Tolerance)
  /\ forward_matrix' = compute_correction_matrix(angles, ratio, CenterOf(bounds.v))
  /\ output' = apply_affine_transform(img, forward_matrix', overflow_checks)
  /\ pc' = IF IsPanic(output') THEN "panicked" ELSE "transformed"
  /\ stages' = Append(stages, "apply_affine_transform")
  /\ UNCHANGED <<img, alpha_threshold, target_size, overflow_checks, detected_lines, ratio,
                 bounds, angles>>

\* crop_to_content of the transformed buffer, or of the source when the
\* angles are close to the target
Crop ==
  /\ \/ pc = "transformed"
     \/ pc = "detected" /\ is_close_to_target(angles, ratio, Tolerance)
  /\ output' = crop_to_content(IF pc = "transformed" THEN output ELSE img)
  /\ pc' = IF IsPanic(output') THEN "panicked" ELSE "cropped"
  /\ stages' = Append(stages, "crop_to_content")
  /\ UNCHANGED <<img, alpha_threshold, forward_matrix, target_size, overflow_checks,
                 detected_lines, ratio, bounds, angles>>

Resize ==
  /\ pc = "cropped"
  /\ output' = resize_to_fit(output, target_size, overflow_checks)
  /\ pc' = IF IsPanic(output') THEN "panicked" ELSE "resized"
  /\ stages' = Append(stages, "resize_to_fit")
  /\ UNCHANGED <<img, alpha_threshold, forward_matrix, target_size, overflow_checks,
                 detected_lines, ratio, bounds, angles>>

Save ==
  /\ pc = "resized"
  /\ pc' = "saved"
  /\ stages' = Append(stages, "save")
  /\ UNCHANGED <<img, alpha_threshold, forward_matrix, target_size, overflow_checks,
                 detected_lines, ratio, bounds, angles, output>>

Next ==
  \/ Detect
  \/ Transform
  \/ Crop
  \/ Resize
  \/ Save

Spec == Init /\ [][Next]_vars

\* |left angle| and the right angle are both less than 2.0 degrees from the
\* target diagonal angle of the ratio.
Within(target) ==
  /\ F64Cmp[F64Abs[F64Sub[F64Abs[angles.left_angle], target]], F64Lit[2, 0]] < 0
  /\ F64Cmp[F64Abs[F64Sub[angles.right_angle, target]], F64Lit[2, 0]] < 0

WithinTolerance == Within(target_angle_degrees(ratio))

\* C9: in a run that found content, once main has chosen its branch the
\* transform has been skipped exactly when both angles are within the 2.0
\* degree tolerance; and a run that has saved ran crop_to_content and then
\* resize_to_fit once each, in that order, before its one save.
C9_Stages ==
  /\ pc \in {"transformed", "cropped", "resized", "saved", "panicked"} =>
       ((\A i \in 1..Len(stages) : stages[i] # "apply_affine_transform") <=> WithinTolerance)
  /\ Cardinality({i \in 1..Len(stages) : stages[i] = "save"}) <= 1
  /\ pc = "saved" =>
       stages = (IF WithinTolerance
                 THEN <<"detect_isometric_angles", "crop_to_content", "resize_to_fit", "save">>
                 ELSE <<"detect_isometric_angles", "apply_affine_transform", "crop_to_content",
                        "resize_to_fit", "save">>)

\* A run whose right angle is 47 degrees against a target of 45 has
\* transformed, cropped, resized and saved.
C9_Witness ==
  /\ pc = "saved"
  /\ ratio = <<1, 1>>
  /\ angles.right_angle = F64Lit[47, 0]
  /\ angles.left_angle = F64Lit[-45, 0]
  /\ stages = <<"detect_isometric_angles", "apply_affine_transform", "crop_to_content",
                "resize_to_fit", "save">>

\* C10: a source with no pixel of alpha >= 10 makes detect_isometric_angles
\* fail and the run abort with no later stage and no output buffer; and that
\* is the only way a run stops before saving.
C10_OnlyAbort ==
  LET NoContent == \A k \in 1..(img.w * img.h) : img.px[k][4] < 10
  IN /\ (NoContent /\ pc # "start") =>
          /\ pc = "aborted"
          /\ stages = <<"detect_isometric_angles">>
          /\ output = EmptyImage
     /\ pc \in {"aborted", "panicked"} => NoContent

\* The slope angle of the i-th detected line is in the closed range lo..hi
SlopeIn(i, lo, hi) ==
  F64Ge[SlopeOf(i), F64FromInt[lo]] /\ F64Le[SlopeOf(i), F64FromInt[hi]]

\* The detected lines at the positions S, in their order
LinesAt(S) ==
  Strict([k \in 1..Cardinality(S) |->
            DetectedLines(detected_lines)[CHOOSE i \in S : Cardinality({j \in S : j <= i}) = k]])

\* C17: in a run that found content, the left angle handed on is in
\* [-60, -15] and the right angle in [15, 60]; the left class is the lines
\* with slope in [-60, -15], the right class the lines with slope in
\* [15, 60], and no line is in both; and the basis of the two detected
\* directions has an inverse, so compute_correction_matrix does not fall
\* back to the identity.
C17_NeverSingular ==
  pc \notin {"start", "aborted"} =>
    /\ F64Ge[angles.left_angle, F64FromInt[-60]] /\ F64Le[angles.left_angle, F64FromInt[-15]]
    /\ F64Ge[angles.right_angle, F64FromInt[15]] /\ F64Le[angles.right_angle, F64FromInt[60]]
    /\ classify_lines(DetectedLines(detected_lines))[1] =
         LinesAt({i \in 1..Len(detected_lines) : SlopeIn(i, -60, -15)})
    /\ classify_lines(DetectedLines(detected_lines))[2] =
         LinesAt({i \in 1..Len(detected_lines) : SlopeIn(i, 15, 60)})
    /\ \A i \in 1..Len(detected_lines) : ~(SlopeIn(i, -60, -15) /\ SlopeIn(i, 15, 60))
    /\ ~SingularBasis

\* A run that transformed on a line just below -60 degrees, which is
\* discarded, and a line just above 15 degrees: the left angle is the default
\* and the right angle the line's.
C17_Witness ==
  /\ pc \in {"transformed", "cropped", "resized", "saved"}
  /\ detected_lines = <<[angle_in_degrees |-> 30, length |-> 40],
                        [angle_in_degrees |-> 105, length |-> 40]>>
  /\ F64Lt[SlopeOf(1), F64FromInt[-60]]
  /\ angles.left_angle = F64Neg[DefaultAngle]
  /\ angles.right_angle = SlopeOf(2)
  /\ F64Gt[angles.right_angle, F64FromInt[15]]
  /\ ~SingularBasis

\* A run on a source with visible content has panicked in resize_to_fit.
C10_PanicWithContent ==
  /\ pc = "panicked"
  /\ stages[Len(stages)] = "resize_to_fit"
  /\ \E k \in 1..(img.w * img.h) : img.px[k][4] >= 10

====
